---- MODULE Spec2Model ----
(***************************************************************************)
(* Control state machine of EOS connect: BaseControl (the mode fusion, the *)
(* manual override and the state-change window), the apply step           *)
(* change_control_state of the main program, the EVCC poll with its edge   *)
(* callback and the battery provider's dynamic charge limit.               *)
(*                                                                         *)
(* Every handler is a function from the object's fields (a record) and the *)
(* wall clock to the new fields; an action applies one handler.  Wall      *)
(* clock values are whole seconds.  Python's False/True stored in          *)
(* current_discharge_allowed are the integers 0/1 they compare equal to;   *)
(* the initial value False of current_evcc_charging_mode is the string     *)
(* "False" (a value outside every mode the code tests for).                *)
(***************************************************************************)
EXTENDS Integers, Sequences, FiniteSets, TLC

VARIABLES
    bc,         \* BaseControl's fields
    now,        \* time.time(), in seconds
    evcc,       \* EvccInterface.last_known_charging_state
    battery,    \* BatteryInterface's fields
    inverter,   \* the last call made on inverter_interface
    hist,       \* history of the run (what the properties refer to)
    eos,        \* EosInterface's fields
    sched,      \* the optimization thread
    worker,     \* BaseControl's update thread inside a re-evaluation
    threads,    \* the threads of the program at shutdown
    fronius,    \* the inverter behind FroniusWRV2 and the backup file
    auth,       \* one _set_time_of_use of FroniusWRV2, request by request
    battery_data, \* BatteryInterface.battery_data, the battery's configuration
    price,      \* PriceInterface's fields
    pv,         \* PvInterface's fields
    boot,       \* the start of the program: ConfigManager, then the workers
    setter      \* the optimization thread inside setting_control_data

\* The variables of the parts modelled on their own.
more == <<auth, battery_data, price, pv, boot, setter>>

others == <<eos, sched, worker, threads, fronius, more>>

vars == <<bc, now, evcc, battery, inverter, hist, others>>

----------------------------------------------------------------------------
(* Bounds of the model *)

MaxStamps == 1          \* longest window BaseControl's callers may build
MaxWindow == 2          \* longest window the program's handlers may build
MaxFill == 1001         \* longest window when the window is filled up

\* The clock values at which the system is observed, in seconds: less than a
\* minute apart at first, then past change_control_state's window.
Instants == {0, 45, 90, 300}

(* Inputs *)
AcRel == {0, 100}                       \* ac_charge[h] (0.0 .. 1.0), in hundredths
DcRel == {100}                          \* dc_charge[h] (0.0 .. 1.0), in hundredths
DischargeValues == {0, 1}               \* bool(discharge_allowed[h])
StartSolutions == {<< >>, <<1>>, <<1, 0>>, <<0, 1>>}    \* start_solution
\* How the POST to EOS's /optimize ends: a 2xx response with a JSON body, a
\* timeout, no connection, an HTTP error status, a body that is no JSON.
EosOutcomes == {"ok", "timeout", "connection", "http_error", "bad_json"}
\* A control vector of a response: with an entry for the current hour,
\* absent from the response, or too short for the current hour.
VectorShapes == {"ok", "missing", "short"}
EvModes == {"off", "now", "pv", "minpv", "pv+now", "minpv+now"}
OverrideModes == {-1, 0, 1, 2}
Durations == {0, 1, 721}                \* minutes
\* modes a caller may pass to set_mode_override, valid or not
RequestedModes == {-2, -1, 0, 2, 3, 7}
ChargeRates == {0, 3}                   \* kW
ChargePowers == {1000, 3000, 12000}     \* W, passed to set_mode_force_charge
PvChargeRates == {0, 5000}              \* W, inverter.max_pv_charge_rate
GridChargeRates == {3000, 5000, 12000}  \* W, inverter.max_grid_charge_rate
\* price.source; "unknown" stands for every other string.
PriceSources == {"default", "tibber", "smartenergy_at", "fixed_24h", "unknown"}
Hours == 0..23                          \* start_time.hour
\* The hours of a day with a negative price upstream.
NegativeHours == {{}, {3}, {0, 13}}
\* How a fetch of prices ends: a payload, no usable answer, or (Tibber) a
\* body with errors.
FetchOutcomes == {"ok", "failed", "errors"}
\* pv_forecast_source.source, of those whose forecast is a list built from
\* the hourly values of the payload.
PvSources == {"akkudoktor", "forecast_solar", "evcc", "default"}
\* pv_forecast: the power in W of each configured array.
PvArrays == {<< 1000 >>, << 1000, 2000 >>}
\* The hourly values a payload holds for the two days from midnight: none,
\* or 23, 24 or 25 per day.
PayloadLengths == {0, 46, 47, 48, 49, 50}
\* eos.timeout in seconds and refresh_time in minutes, as config.yaml may
\* hold them.
Timeouts == {30, 59, 60, 61, 120, 179, 180, 181, 240, 300, 600, 900}
RefreshTimes == {1, 2, 3, 4, 5, 10, 15}
\* How the inverter answers a request without Authorization and one with it:
\* a status, or no answer (the request raises).
FirstStatuses == {"200", "401", "404", "500", "error"}
SecondStatuses == {"200", "401", "500", "error"}
\* The challenge of a 401: no usable header or nonce, the algorithm it
\* advertises, or a header without algorithm.
Challenges == {"none", "SHA-256", "SHA256", "MD5", "unspecified"}
\* The body of a 200: no JSON, JSON that is no object, an object without
\* writeSuccess, with writeSuccess null, a writeSuccess list without and with
\* "timeofuse".
WriteBodies ==
    {"unparseable", "not_dict", "no_write_success", "write_success_null",
     "write_success_without", "write_success_with"}
\* What one poll of EVCC's /api/state yields: no data, data without a boolean
\* "charging", or a boolean; and the loadpoint's mode next to a boolean.
PollResults == {"failed", "malformed", "true", "false"}
PolledModes == {"off", "now"}
SocValues == {72}                       \* percent
AllSocs == 0..100                       \* percent
SocSources == {"openhab", "homeassistant"}      \* battery.source
\* The "state" of the SoC item, as a whole number, and how the GET for it
\* ends: a 2xx response with a number or with no number in "state", a
\* timeout, no connection, an HTTP error status.
RawStates == {1, 37, 80}
SocOutcomes == {"ok", "bad_state", "timeout", "connection", "http_error"}
Capacities == {400, 5030, 11059, 20000} \* Wh, battery.capacity_wh
MaxChargePowers == {1000, 5000, 5030}   \* W, battery.max_charge_power_w
Windows == {-1, 0, 180}                 \* seconds; a negative one keeps nothing
QueryWindows == {0, 180}                \* seconds, where the window is observed

----------------------------------------------------------------------------
(* Program constants *)

MODE_STARTUP == -1
MODE_CHARGE_FROM_GRID == 0
MODE_AVOID_DISCHARGE == 1
MODE_DISCHARGE_ALLOWED == 2
MODE_AVOID_DISCHARGE_EVCC_FAST == 3
MODE_DISCHARGE_ALLOWED_EVCC_PV == 4
MODE_DISCHARGE_ALLOWED_EVCC_MIN_PV == 5

max_timestamps == 1000
max_charge_power_w == 5000      \* config["battery"]["max_charge_power_w"]
capacity_wh == 11059            \* config["battery"]["capacity_wh"]
min_charge_power == 500
time_window_seconds == 180      \* change_control_state's window
inverter_en == TRUE             \* config["inverter"]["type"] == "fronius_gen24"
max_grid_charge_rate == 5000    \* config["inverter"]["max_grid_charge_rate"]
max_pv_charge_rate == 5000      \* config["inverter"]["max_pv_charge_rate"]
hard_charge_limit == 10000      \* "Limit to 10kW"

Min(a, b) == IF a <= b THEN a ELSE b
Max(a, b) == IF a >= b THEN a ELSE b

----------------------------------------------------------------------------
(* BaseControl *)

BaseControlInit ==
    [ current_ac_charge_demand |-> 0,
      current_ac_charge_demand_no_override |-> 0,
      last_ac_charge_demand |-> 0,
      current_dc_charge_demand |-> 0,
      current_discharge_allowed |-> -1,
      current_evcc_charging_state |-> FALSE,
      current_evcc_charging_mode |-> "False",
      current_overall_state |-> MODE_STARTUP,
      override_active |-> FALSE,
      override_end_time |-> 0,
      current_battery_soc |-> 0,
      state_change_timestamps |-> << >> ]

\* Faulty variant of base_state: discharge allowed is looked at before the
\* AC charge demand.
base_state_discharge_first(c) ==
    IF c.current_discharge_allowed > 0 THEN MODE_DISCHARGE_ALLOWED
    ELSE IF c.current_ac_charge_demand > 0 THEN MODE_CHARGE_FROM_GRID
    ELSE IF c.current_discharge_allowed = 0 THEN MODE_AVOID_DISCHARGE
    ELSE MODE_STARTUP

\* The mode the EOS values alone ask for.
base_state(c) ==
    IF c.current_ac_charge_demand > 0 THEN MODE_CHARGE_FROM_GRID
    ELSE IF c.current_discharge_allowed > 0 THEN MODE_DISCHARGE_ALLOWED
    ELSE IF c.current_discharge_allowed = 0 THEN MODE_AVOID_DISCHARGE
    ELSE MODE_STARTUP

\* Faulty variant of evcc_state: "pv+now" is missing from the fast modes.
evcc_state_without_pv_now(c, s) ==
    IF s = MODE_DISCHARGE_ALLOWED /\ c.current_evcc_charging_state
    THEN IF c.current_evcc_charging_mode \in {"now", "minpv+now"}
         THEN MODE_AVOID_DISCHARGE_EVCC_FAST
         ELSE IF c.current_evcc_charging_mode = "pv"
         THEN MODE_DISCHARGE_ALLOWED_EVCC_PV
         ELSE IF c.current_evcc_charging_mode = "minpv"
         THEN MODE_DISCHARGE_ALLOWED_EVCC_MIN_PV
         ELSE s
    ELSE s

\* Faulty variant of evcc_state: the modes for "pv" and "minpv" are swapped.
evcc_state_pv_swapped(c, s) ==
    IF s = MODE_DISCHARGE_ALLOWED /\ c.current_evcc_charging_state
    THEN IF c.current_evcc_charging_mode \in {"now", "pv+now", "minpv+now"}
         THEN MODE_AVOID_DISCHARGE_EVCC_FAST
         ELSE IF c.current_evcc_charging_mode = "pv"
         THEN MODE_DISCHARGE_ALLOWED_EVCC_MIN_PV
         ELSE IF c.current_evcc_charging_mode = "minpv"
         THEN MODE_DISCHARGE_ALLOWED_EVCC_PV
         ELSE s
    ELSE s

\* The three EVCC rewrites of MODE_DISCHARGE_ALLOWED, in the code's order.
evcc_state(c, s) ==
    LET s1 == IF /\ s = MODE_DISCHARGE_ALLOWED
                 /\ c.current_evcc_charging_state
                 /\ c.current_evcc_charging_mode \in {"now", "pv+now", "minpv+now"}
              THEN MODE_AVOID_DISCHARGE_EVCC_FAST ELSE s
        s2 == IF /\ s1 = MODE_DISCHARGE_ALLOWED
                 /\ c.current_evcc_charging_state
                 /\ c.current_evcc_charging_mode = "pv"
              THEN MODE_DISCHARGE_ALLOWED_EVCC_PV ELSE s1
        s3 == IF /\ s2 = MODE_DISCHARGE_ALLOWED
                 /\ c.current_evcc_charging_state
                 /\ c.current_evcc_charging_mode = "minpv"
              THEN MODE_DISCHARGE_ALLOWED_EVCC_MIN_PV ELSE s2
    IN s3

\* Append a timestamp and drop the oldest when the window is over its limit.
append_timestamp(ts, t) ==
    LET a == Append(ts, t)
    IN IF Len(a) > max_timestamps THEN Tail(a) ELSE a

\* Faulty variant of evaluate_state: the demand of the last evaluation is
\* not stored.
evaluate_state_keeping_last(c, t) ==
    LET new_state == evcc_state(c, base_state(c))
        grid_charge_value_changed ==
            c.current_ac_charge_demand # c.last_ac_charge_demand
    IN [c EXCEPT
          !.state_change_timestamps =
              IF new_state # c.current_overall_state \/ grid_charge_value_changed
              THEN append_timestamp(@, t) ELSE @,
          !.current_overall_state = new_state]

\* The evaluation without override: new state, timestamp on a change.
evaluate_state(c, t) ==
    LET new_state == evcc_state(c, base_state(c))
        grid_charge_value_changed ==
            c.current_ac_charge_demand # c.last_ac_charge_demand
    IN [c EXCEPT
          !.state_change_timestamps =
              IF new_state # c.current_overall_state \/ grid_charge_value_changed
              THEN append_timestamp(@, t) ELSE @,
          !.last_ac_charge_demand = c.current_ac_charge_demand,
          !.current_overall_state = new_state]

\* Faulty variant of clear_mode_override: the AC charge demand is not reset.
clear_mode_override_keeping_demand(c, t) ==
    evaluate_state([c EXCEPT !.override_active = FALSE,
                             !.override_end_time = 0], t)

clear_mode_override(c, t) ==
    evaluate_state([c EXCEPT
                      !.override_active = FALSE,
                      !.override_end_time = 0,
                      !.current_ac_charge_demand =
                          c.current_ac_charge_demand_no_override], t)

\* Faulty variants of set_current_overall_state: the override is not looked
\* at, and the end time of the override is not looked at.
set_current_overall_state_ignoring_override(c, t) == evaluate_state(c, t)

set_current_overall_state_without_end(c, t) ==
    IF c.override_active THEN c ELSE evaluate_state(c, t)

set_current_overall_state(c, t) ==
    IF c.override_active
    THEN IF t > c.override_end_time THEN clear_mode_override(c, t) ELSE c
    ELSE evaluate_state(c, t)

\* Faulty variant of set_current_ac_charge_demand: the demand is set whether
\* an override is active or not.
set_current_ac_charge_demand_over_override(c, value_relative, t) ==
    LET current_charge_demand == (value_relative * max_charge_power_w) \div 100
    IN set_current_overall_state(
           [c EXCEPT !.current_ac_charge_demand_no_override = current_charge_demand,
                     !.current_ac_charge_demand = current_charge_demand], t)

set_current_ac_charge_demand(c, value_relative, t) ==
    LET current_charge_demand == (value_relative * max_charge_power_w) \div 100
        c1 == [c EXCEPT !.current_ac_charge_demand_no_override = current_charge_demand]
        c2 == IF ~c1.override_active
              THEN [c1 EXCEPT !.current_ac_charge_demand = current_charge_demand]
              ELSE c1
    IN set_current_overall_state(c2, t)

set_current_dc_charge_demand(c, value_relative, t) ==
    set_current_overall_state(
        [c EXCEPT !.current_dc_charge_demand =
                      (value_relative * max_charge_power_w) \div 100], t)

set_current_discharge_allowed(c, value, t) ==
    set_current_overall_state([c EXCEPT !.current_discharge_allowed = value], t)

set_current_evcc_charging_state(c, value, t) ==
    set_current_overall_state([c EXCEPT !.current_evcc_charging_state = value], t)

set_current_evcc_charging_mode(c, value, t) ==
    set_current_overall_state([c EXCEPT !.current_evcc_charging_mode = value], t)

set_current_battery_soc(c, value) ==
    [c EXCEPT !.current_battery_soc = value]

\* Faulty variant of set_mode_override: the duration counts ten-minute steps
\* (duration * 60 / 10 seconds).
set_mode_override_in_steps(c, mode, duration, charge_rate, t) ==
    IF mode = -1 THEN clear_mode_override(c, t)
    ELSE IF ~(0 <= duration /\ duration <= 12 * 60) THEN c
    ELSE [c EXCEPT
            !.current_overall_state = mode,
            !.override_active = TRUE,
            !.override_end_time = ((t + (duration * 60) \div 10) \div 60) * 60,
            !.state_change_timestamps = Append(@, t),
            !.current_ac_charge_demand =
                IF charge_rate > 0 /\ mode = MODE_CHARGE_FROM_GRID
                THEN charge_rate * 1000 ELSE @]

set_mode_override(c, mode, duration, charge_rate, t) ==
    IF mode = -1 THEN clear_mode_override(c, t)
    ELSE IF ~(0 <= duration /\ duration <= 12 * 60) THEN c
    ELSE IF mode >= 0 \/ mode <= 2
    THEN [c EXCEPT
            !.current_overall_state = mode,
            !.override_active = TRUE,
            !.override_end_time = ((t + duration * 60) \div 60) * 60,
            !.state_change_timestamps = Append(@, t),
            !.current_ac_charge_demand =
                IF charge_rate > 0 /\ mode = MODE_CHARGE_FROM_GRID
                THEN charge_rate * 1000 ELSE @]
    ELSE c

\* Faulty variant of recent_timestamps: a timestamp exactly time_window old
\* is dropped.
recent_timestamps_strict(ts, time_window, t) ==
    SelectSeq(ts, LAMBDA x : t - x < time_window)

\* The timestamps kept by was_overall_state_changed_recently.
recent_timestamps(ts, time_window, t) ==
    SelectSeq(ts, LAMBDA x : t - x <= time_window)

was_overall_state_changed_recently(c, time_window, t) ==
    [c EXCEPT !.state_change_timestamps = recent_timestamps(@, time_window, t)]

----------------------------------------------------------------------------
(* The apply step of the main program *)
(*                                                                         *)
(* change_control_state compares get_current_overall_state() with 0, 1, 2  *)
(* and "< 0": it reads the number of the state, the value                  *)
(* get_current_overall_state_number returns.  The inverter is the          *)
(* configured type "fronius_gen24", the one the writes exist for.  The     *)
(* operator's override reaches BaseControl through set_mode_override and   *)
(* clear_mode_override; it makes no apply step of its own.                 *)

InverterInit == [mode |-> "none", power |-> 0]

\* The call change_control_state makes for a state, none for the others.
inverter_call(c) ==
    IF c.current_overall_state = 0
    THEN [mode |-> "force_charge", power |-> c.current_ac_charge_demand]
    ELSE IF c.current_overall_state = 1
    THEN [mode |-> "avoid_discharge", power |-> 0]
    ELSE IF c.current_overall_state = 2
    THEN [mode |-> "allow_discharge", power |-> 0]
    ELSE [mode |-> "none", power |-> 0]

\* change_control_state: the control fields after it, whether it found a
\* recent change, and the inverter call it made.
change_control_state(c, charging, t) ==
    LET c1 == set_current_evcc_charging_state(c, charging, t)
        c2 == was_overall_state_changed_recently(c1, time_window_seconds, t)
        changed == Len(c2.state_change_timestamps) > 0
        call == inverter_call(c2)
    IN [bc |-> c2,
        changed |-> changed,
        wrote |-> changed /\ inverter_en /\ call.mode # "none",
        call |-> call]

setting_control_data(c, ac, dc, discharge, soc, t) ==
    set_current_battery_soc(
        set_current_discharge_allowed(
            set_current_dc_charge_demand(
                set_current_ac_charge_demand(c, ac, t), dc, t), discharge, t), soc)

\* The optimization thread between the setters of setting_control_data:
\* pc is the last setter done; ac, dc, discharge the values of the hour.
\* History: state_before and state_after, the control state before the tick
\* and the one with all three values applied.
SetterInit ==
    [pc |-> "idle", ac |-> 0, dc |-> 0, discharge |-> 0,
     state_before |-> BaseControlInit, state_after |-> BaseControlInit]

----------------------------------------------------------------------------
(* Battery provider *)

BatteryInit == [current_soc |-> 0, max_charge_power_dyn |-> 0]

\* round(n / d) of Python 3: to the nearest integer, ties to the even one.
RoundHalfEven(n, d) ==
    LET q == n \div d
        r == n % d
    IN IF 2 * r < d THEN q
       ELSE IF 2 * r > d THEN q + 1
       ELSE IF q % 2 = 0 THEN q ELSE q + 1

\* The configuration of the program.
BatteryData ==
    [capacity_wh |-> capacity_wh, max_charge_power_w |-> max_charge_power_w]

\* c_rate * 3600 for a whole soc in 0..100:
\* c_rate = max(0.05, (1 - (soc - 50) / 60) ** 2) above 50, 1.0 up to 50.
c_rate_num(soc) ==
    IF soc <= 50 THEN 3600 ELSE Max(180, (110 - soc) * (110 - soc))

\* __get_max_charge_power_dyn with the charging curve enabled, for a whole
\* soc in 0..100 and a configuration with a positive capacity.
get_max_charge_power_dyn(soc, data) ==
    LET \* min(c_rate * capacity, max_charge_power_fix) = power_num / 3600
        power_num == Min(c_rate_num(soc) * data.capacity_wh,
                         data.max_charge_power_w * 3600)
        rounded == RoundHalfEven(power_num, 3600 * 50) * 50
    IN Max(rounded, min_charge_power)

max_charge_power_dyn(soc) == get_max_charge_power_dyn(soc, BatteryData)

update_state(b, soc) ==
    [b EXCEPT !.current_soc = soc,
              !.max_charge_power_dyn = max_charge_power_dyn(soc)]

\* One pass of _update_state_loop for a battery configured with data.
update_state_of(b, soc, data) ==
    [b EXCEPT !.current_soc = soc,
              !.max_charge_power_dyn = get_max_charge_power_dyn(soc, data)]

\* BatteryInterface after __init__ for a configuration with a source.
BatteryInterfaceInit ==
    [current_soc |-> 0, max_charge_power_dyn |-> 0,
     last_max_charge_power_dyn |-> 0]

\* __fetch_soc_data_from_openhab and __fetch_soc_data_from_homeassistant:
\* the value returned, or raised (float() of a state that is no number
\* raises ValueError, which the methods do not catch).  A state <= 1.0 of
\* openhab is a fraction of 1.
fetch_soc_data(src, outcome, state) ==
    IF outcome = "ok"
    THEN [raised |-> FALSE,
          soc |-> IF src = "openhab" /\ state <= 1 THEN state * 100 ELSE state]
    ELSE IF outcome = "bad_state" THEN [raised |-> TRUE, soc |-> 0]
    ELSE [raised |-> FALSE, soc |-> 5]

\* One pass of _update_state_loop: __battery_request_current_soc, then
\* __get_max_charge_power_dyn, which calls on_bat_max_changed (called);
\* an exception is caught by the loop.
update_state_loop(b, data, outcome, state) ==
    LET f == fetch_soc_data(data.source, outcome, state)
        b1 == [b EXCEPT !.current_soc = f.soc]
        dyn == get_max_charge_power_dyn(b1.current_soc, data)
        changed == dyn # b1.last_max_charge_power_dyn
    IN IF f.raised THEN [battery |-> b, called |-> FALSE]
       ELSE IF ~data.charging_curve_enabled
       THEN [battery |-> [b1 EXCEPT !.max_charge_power_dyn =
                                        data.max_charge_power_w],
             called |-> FALSE]
       ELSE [battery |-> [b1 EXCEPT
                            !.max_charge_power_dyn = dyn,
                            !.last_max_charge_power_dyn = dyn],
             called |-> changed]

----------------------------------------------------------------------------
(* The re-evaluation in steps *)

\* Between the computation of new_state and the assignment of
\* current_overall_state the thread can be preempted: the local variables of
\* __set_current_overall_state at that point.
WorkerInit ==
    [pc |-> "idle", new_state |-> MODE_STARTUP,
     grid_charge_value_changed |-> FALSE]

\* The end of __set_current_overall_state, from the comparison on.
commit_state(c, new_state, grid_charge_value_changed, t) ==
    [c EXCEPT
       !.state_change_timestamps =
           IF new_state # c.current_overall_state \/ grid_charge_value_changed
           THEN append_timestamp(@, t) ELSE @,
       !.last_ac_charge_demand = c.current_ac_charge_demand,
       !.current_overall_state = new_state]

----------------------------------------------------------------------------
(* The inverter driver *)

Rule(power, schedule_type) == [Power |-> power, ScheduleType |-> schedule_type]

\* The time-of-use rules found on the inverter at startup.
UserRules == << Rule(2000, "DISCHARGE_MAX") >>

NoBackup == [exists |-> FALSE, rules |-> << >>]

\* timeofuse: the rules on the inverter; backup: the file backup_filename;
\* up: until shutdown(); mutated, failed (history): a mode operation has
\* written its rules, a request to the inverter has failed.
FroniusInit ==
    [timeofuse |-> UserRules, backup |-> NoBackup, up |-> TRUE,
     mutated |-> FALSE, failed |-> FALSE]

\* _set_time_of_use with a request that succeeds (ok) or not.
set_time_of_use(f, timeofuse_list, ok) ==
    IF ok THEN [f EXCEPT !.timeofuse = timeofuse_list]
    ELSE [f EXCEPT !.failed = TRUE]

mode_normal_rules ==
    IF max_pv_charge_rate > 0
    THEN << Rule(max_pv_charge_rate, "CHARGE_MAX") >> ELSE << >>

mode_hold_rules ==
    << Rule(0, "DISCHARGE_MAX") >> \o
    (IF max_pv_charge_rate > 0
     THEN << Rule(max_pv_charge_rate, "CHARGE_MAX") >> ELSE << >>)

force_charge_rules(charge_power_w) ==
    << Rule(Min(charge_power_w, Min(max_grid_charge_rate, hard_charge_limit)),
            "CHARGE_MIN") >>

\* A mode operation: its rules are written with _set_time_of_use.
set_mode(f, timeofuse_list, ok) ==
    [set_time_of_use(f, timeofuse_list, ok) EXCEPT !.mutated = @ \/ ok]

\* backup_current_config: an empty or unread rule set is not written.
backup_current_config(f, ok) ==
    IF ~ok THEN [f EXCEPT !.failed = TRUE]
    ELSE IF f.timeofuse # << >>
    THEN [f EXCEPT !.backup = [exists |-> TRUE, rules |-> f.timeofuse]]
    ELSE f

restore_backup_config(f, ok) ==
    IF ~f.backup.exists THEN f
    ELSE LET g == set_time_of_use(f, f.backup.rules, ok)
         IN IF ok THEN [g EXCEPT !.backup = NoBackup] ELSE g

fronius_shutdown(f, ok) == [restore_backup_config(f, ok) EXCEPT !.up = FALSE]

\* The driver constructed with a configuration of its own.  History: last,
\* the last mode operation, its power and whether its write succeeded.
FroniusConfigured(pv_rate, grid_rate) ==
    [timeofuse |-> UserRules, backup |-> NoBackup, up |-> TRUE,
     mutated |-> FALSE, failed |-> FALSE,
     max_pv_charge_rate |-> pv_rate, max_grid_charge_rate |-> grid_rate,
     last |-> [op |-> "none", power |-> 0, ok |-> FALSE]]

\* The rule lists of _set_mode_normal, _set_mode_hold and
\* set_mode_force_charge for the driver f.
set_mode_normal_rules(f) ==
    IF f.max_pv_charge_rate > 0
    THEN << Rule(f.max_pv_charge_rate, "CHARGE_MAX") >> ELSE << >>

set_mode_hold_rules(f) ==
    << Rule(0, "DISCHARGE_MAX") >> \o
    (IF f.max_pv_charge_rate > 0
     THEN << Rule(f.max_pv_charge_rate, "CHARGE_MAX") >> ELSE << >>)

set_mode_force_charge_rules(f, charge_power_w) ==
    << Rule(Min(charge_power_w, Min(f.max_grid_charge_rate, hard_charge_limit)),
            "CHARGE_MIN") >>

\* get_battery_mode for the rules read from the inverter (all of them
\* active): an empty list is "unknown".
get_battery_mode(current_config) ==
    LET has(type) == \E i \in 1..Len(current_config) :
                        current_config[i].ScheduleType = type
        has_discharge_max_zero ==
            \E i \in 1..Len(current_config) :
                /\ current_config[i].ScheduleType = "DISCHARGE_MAX"
                /\ current_config[i].Power = 0
    IN IF current_config = << >> THEN "unknown"
       ELSE IF has("CHARGE_MIN") THEN "charge"
       ELSE IF has_discharge_max_zero THEN "hold"
       ELSE IF has("CHARGE_MAX") THEN "normal"
       ELSE "unknown"

----------------------------------------------------------------------------
(* Price provider *)

\* Prices are whole numbers: upstream in the unit of the source, published
\* in 1e-9 EUR/Wh; the tariff in 1e-3 EUR/kWh.
EOS_TGT_DURATION == 48
feed_in_tariff_price == 80
tibber_tax == 3

\* s[a:b] of Python for 0 <= a <= b.
Slice(s, a, b) == SubSeq(s, a + 1, Min(b, Len(s)))

Scaled(s, k) == [i \in 1..Len(s) |-> s[i] * k]

\* The 24 upstream values of day d, negative in the hours of neg.
DayValues(d, neg) ==
    [i \in 1..24 |-> IF (i - 1) \in neg THEN 0 - (24 * d + i) ELSE 24 * d + i]

\* What upstream holds at a fetch: today's values and tomorrow's, if there.
Fetches ==
    { [outcome |-> o, today |-> DayValues(0, neg), tomorrow |-> tm] :
        o \in FetchOutcomes, neg \in NegativeHours,
        tm \in {<< >>, DayValues(1, {})} }

\* price.fixed_24h_array: none, 24 values, 23 values.
FixedArrays == {<< >>, DayValues(0, {}), Slice(DayValues(0, {}), 0, 23)}

default_prices == [i \in 1..48 |-> 100000]

PriceInit(src, fixed_24h_array, negative_price_switch) ==
    [src |-> src, fixed_24h_array |-> fixed_24h_array,
     negative_price_switch |-> negative_price_switch,
     current_prices |-> << >>, current_prices_direct |-> << >>,
     current_feedin |-> << >>, updated |-> FALSE]

\* The window of tgt_duration hours from current_hour on, continued from the
\* beginning of the list where the list ends.
extended(prices, current_hour, tgt_duration) ==
    LET e == Slice(prices, current_hour, current_hour + tgt_duration)
    IN IF Len(e) < tgt_duration
       THEN e \o Slice(prices, 0, tgt_duration - Len(e))
       ELSE e

\* Each source gives the prices it returns and the new current_prices_direct.
retrieve_prices_from_akkudoktor(p, tgt_duration, current_hour, fetch) ==
    IF fetch.outcome # "ok"
    THEN [prices |-> default_prices, direct |-> p.current_prices_direct]
    ELSE LET prices == Scaled(fetch.today \o fetch.tomorrow, 10000)
             e == extended(prices, current_hour, tgt_duration)
         IN [prices |-> e, direct |-> e]

retrieve_prices_from_tibber(p, tgt_duration, current_hour, fetch) ==
    IF fetch.outcome = "failed"
    THEN [prices |-> default_prices, direct |-> p.current_prices_direct]
    ELSE IF fetch.outcome = "errors"
    THEN [prices |-> << >>, direct |-> p.current_prices_direct]
    ELSE LET total(day) == Scaled([i \in 1..Len(day) |-> day[i] + tibber_tax], 100)
             energy(day) == Scaled(day, 100)
             prices == total(fetch.today) \o
                       (IF fetch.tomorrow # << >> THEN total(fetch.tomorrow)
                        ELSE Slice(total(fetch.today), 0, 24))
             prices_direct == energy(fetch.today) \o
                       (IF fetch.tomorrow # << >> THEN energy(fetch.tomorrow)
                        ELSE Slice(energy(fetch.today), 0, 24))
         IN [prices |-> extended(prices, current_hour, tgt_duration),
             direct |-> extended(prices_direct, current_hour, tgt_duration)]

retrieve_prices_from_smartenergy_at(p, tgt_duration, fetch) ==
    IF fetch.outcome # "ok"
    THEN [prices |-> default_prices, direct |-> p.current_prices_direct]
    ELSE LET hourly_prices == Scaled(fetch.today, 10000)
             e == IF Len(hourly_prices) < tgt_duration
                  THEN hourly_prices \o
                       Slice(hourly_prices, 0, tgt_duration - Len(hourly_prices))
                  ELSE hourly_prices
         IN [prices |-> e, direct |-> e]

retrieve_prices_from_fixed24h_array(p, tgt_duration) ==
    IF p.fixed_24h_array = << >> \/ Len(p.fixed_24h_array) # 24
    THEN [prices |-> default_prices, direct |-> default_prices]
    ELSE LET prices == Scaled(p.fixed_24h_array, 10000)
             e == IF Len(prices) < tgt_duration
                  THEN prices \o Slice(prices, 0, tgt_duration - Len(prices))
                  ELSE prices
         IN [prices |-> e, direct |-> e]

retrieve_prices(p, tgt_duration, current_hour, fetch) ==
    LET r == CASE p.src = "tibber" ->
                    retrieve_prices_from_tibber(p, tgt_duration, current_hour, fetch)
               [] p.src = "smartenergy_at" ->
                    retrieve_prices_from_smartenergy_at(p, tgt_duration, fetch)
               [] p.src = "fixed_24h" ->
                    retrieve_prices_from_fixed24h_array(p, tgt_duration)
               [] p.src = "default" ->
                    retrieve_prices_from_akkudoktor(p, tgt_duration, current_hour, fetch)
               [] OTHER -> [prices |-> default_prices, direct |-> default_prices]
    IN IF r.prices = << >>
       THEN [prices |-> default_prices, direct |-> default_prices]
       ELSE r

create_feedin_prices(p) ==
    [i \in 1..Len(p.current_prices_direct) |->
        IF p.negative_price_switch /\ p.current_prices_direct[i] < 0
        THEN 0 ELSE feed_in_tariff_price * 1000]

update_prices(p, tgt_duration, current_hour, fetch) ==
    LET r == retrieve_prices(p, tgt_duration, current_hour, fetch)
        q == [p EXCEPT !.current_prices = r.prices,
                       !.current_prices_direct = r.direct,
                       !.updated = TRUE]
    IN [q EXCEPT !.current_feedin = create_feedin_prices(q)]

----------------------------------------------------------------------------
(* PV provider *)

\* The payload of n hourly values, one of them negative.
PvValues(n) == [i \in 1..n |-> IF i = 2 THEN 0 - 5 ELSE 10 * i]

\* What one request yields: no usable answer, or a payload.
TemperatureFetches ==
    {[outcome |-> "failed", values |-> << >>],
     [outcome |-> "ok", values |-> [i \in 1..48 |-> 20]]}

PvFetches ==
    {[outcome |-> "failed", values |-> << >>]} \cup
    {[outcome |-> "ok", values |-> PvValues(n)] : n \in PayloadLengths}

\* pv_forcast_array, the published forecast; error, the "error" entry of
\* pv_forcast_request_error.  History: forecasts, what get_pv_forecast
\* returned for each array in the last update.
PvInit(source, config) ==
    [source |-> source, config |-> config, pv_forcast_array |-> << >>,
     temp_forecast_array |-> [i \in 1..48 |-> 15],
     error |-> FALSE, forecasts |-> << >>, updated |-> FALSE]

Repeated(x, n) == [i \in 1..n |-> x]

\* Tenths of the power for each hour of a day.
default_shape ==
    << 0, 0, 0, 0, 0, 0, 1, 2, 3, 4, 5, 6, 7, 6, 5, 4, 3, 2, 1, 0, 0, 0, 0, 0 >>

\* __get_default_pv_forcast: the day's shape twice.
get_default_pv_forcast(pv_power) ==
    [i \in 1..48 |-> (pv_power * default_shape[((i - 1) % 24) + 1]) \div 10]

\* Each source gives the forecast and what it does to the error entry.
handle_interface_error == [forecast |-> << >>, error |-> "set"]

\* __get_pv_forecast_akkudoktor_api for tgt_value "power" or "temperature":
\* only a negative power is set to 0.
get_forecast_akkudoktor_api(fetch, tgt_value, tgt_duration) ==
    IF fetch.outcome # "ok" THEN handle_interface_error
    ELSE LET values == [i \in 1..Len(fetch.values) |->
                           IF tgt_value = "power" THEN Max(fetch.values[i], 0)
                           ELSE fetch.values[i]]
             shifted == IF values # << >> THEN Tail(values) \o << 0 >>
                        ELSE values
             forecast_values ==
                 IF Len(shifted) > tgt_duration
                 THEN Slice(shifted, 0, tgt_duration)
                 ELSE IF Len(shifted) < tgt_duration
                 THEN IF shifted # << >>
                      THEN shifted \o Repeated(shifted[Len(shifted)],
                                               tgt_duration - Len(shifted))
                      ELSE Repeated(0, tgt_duration)
                 ELSE shifted
         IN [forecast |-> forecast_values, error |-> "clear"]

get_pv_forecast_akkudoktor_api(fetch, tgt_duration) ==
    get_forecast_akkudoktor_api(fetch, "power", tgt_duration)

\* __get_default_temperature_forecast
default_temperature_forecast == Repeated(15, 48)

\* The 48 hours from midnight, 0 for an hour the payload does not hold.
get_pv_forecast_by_lookup(fetch, hours) ==
    IF fetch.outcome # "ok" \/ fetch.values = << >> THEN handle_interface_error
    ELSE [forecast |-> [i \in 1..hours |->
                           IF i <= Len(fetch.values) THEN fetch.values[i] ELSE 0],
          error |-> "clear"]

get_pv_forecast(source, pv_power, tgt_duration, fetch) ==
    CASE source = "akkudoktor" ->
            get_pv_forecast_akkudoktor_api(fetch, tgt_duration)
      [] source = "forecast_solar" -> get_pv_forecast_by_lookup(fetch, 48)
      [] source = "evcc" -> get_pv_forecast_by_lookup(fetch, tgt_duration)
      [] OTHER -> [forecast |-> get_default_pv_forcast(pv_power), error |-> "keep"]

\* [x + y for x, y in zip(a, b)]
ZipSum(a, b) == [i \in 1..Min(Len(a), Len(b)) |-> a[i] + b[i]]

\* The loop of get_summarized_pv_forecast from entry k on; acc holds the
\* sum so far, the forecasts returned and the error entry.
RECURSIVE summarized_from(_, _, _, _, _)
summarized_from(p, tgt_duration, fetches, k, acc) ==
    IF k > Len(fetches) THEN acc
    ELSE LET r == get_pv_forecast(p.source, p.config[k], tgt_duration, fetches[k])
         IN summarized_from(p, tgt_duration, fetches, k + 1,
                [forecast_values |-> IF acc.forecast_values = << >>
                                     THEN r.forecast
                                     ELSE ZipSum(acc.forecast_values, r.forecast),
                 forecasts |-> Append(acc.forecasts, r.forecast),
                 error |-> CASE r.error = "set" -> TRUE
                             [] r.error = "clear" -> FALSE
                             [] OTHER -> acc.error])

\* get_summarized_pv_forecast: with source evcc one forecast for the site,
\* else one per configured array.
get_summarized_pv_forecast(p, tgt_duration, fetches) ==
    summarized_from(p, tgt_duration, fetches, 1,
        [forecast_values |-> << >>, forecasts |-> << >>, error |-> p.error])

\* One pass of __update_pv_state_loop: the forecast of the arrays, then the
\* temperature forecast for the first array, which is fetched from
\* akkudoktor whatever the source and sets or clears the error entry too.
update_pv_state(p, fetches, temperature) ==
    LET r == get_summarized_pv_forecast(p, 48, fetches)
        temp_result == get_forecast_akkudoktor_api(temperature, "temperature", 48)
    IN [p EXCEPT
          !.pv_forcast_array =
              IF ~r.error THEN r.forecast_values
              ELSE IF @ = << >> THEN get_default_pv_forcast(p.config[1])
              ELSE @,
          !.temp_forecast_array =
              IF temp_result.forecast = << >> THEN default_temperature_forecast
              ELSE temp_result.forecast,
          !.error = (temp_result.error = "set"),
          !.forecasts = r.forecasts,
          !.updated = TRUE]

----------------------------------------------------------------------------
(* The start of the program *)

\* The defaults of create_default_config.
default_timeout == 180
default_refresh_time == 3

\* pc: before the start, config loaded, workers running, or exited with
\* exit_code; config_file: whether config.yaml exists.
BootInit ==
    [pc |-> "off", config_file |-> FALSE, timeout |-> default_timeout,
     refresh_time |-> default_refresh_time, exit_code |-> 0,
     workers |-> FALSE]

\* check_eos_timeout_and_refreshtime: passed, or sys.exit with exit_code.
check_eos_timeout_and_refreshtime(timeout, refresh_time) ==
    IF timeout > refresh_time * 60
    THEN [passed |-> FALSE, exit_code |-> 0]
    ELSE [passed |-> TRUE, exit_code |-> 0]

\* load_config: without config.yaml the defaults are written and the
\* program exits; with it the values are read and checked.
load_config(b) ==
    IF b.config_file
    THEN LET r == check_eos_timeout_and_refreshtime(b.timeout, b.refresh_time)
         IN IF r.passed THEN [b EXCEPT !.pc = "loaded"]
            ELSE [b EXCEPT !.pc = "exited", !.exit_code = r.exit_code]
    ELSE [b EXCEPT !.pc = "exited", !.exit_code = 0,
                   !.timeout = default_timeout,
                   !.refresh_time = default_refresh_time]

----------------------------------------------------------------------------
(* The inverter driver's requests *)

max_retries == 3

NoResponse == [status |-> "none", body |-> "none"]

\* pc: no operation yet, inside the retry loop, returned; attempt: the loop
\* variable; algorithm: self.algorithm; response, reported: what
\* _make_authenticated_request and _set_time_of_use returned.  History of the
\* operation: requests sent, challenge-response cycles, sleeps, fallbacks
\* to MD5, and per Authorization header sent the challenge it answers, its
\* algorithm and hash, and the status it got.
AuthInit ==
    [pc |-> "idle", attempt |-> 0, algorithm |-> "SHA256",
     response |-> NoResponse, reported |-> "none",
     requests |-> 0, cycles |-> 0, sleeps |-> 0, fallbacks |-> 0,
     headers |-> << >>]

\* _get_nonce: self.algorithm becomes the challenge's algorithm, MD5 if it
\* names none.
get_nonce_algorithm(challenge) ==
    IF challenge = "unspecified" THEN "MD5" ELSE challenge

\* _create_auth_header: the algorithm the header carries and the hash used.
create_auth_header(algorithm) ==
    IF algorithm \in {"SHA256", "SHA-256"}
    THEN [algorithm |-> algorithm, hash |-> "sha256"]
    ELSE [algorithm |-> "MD5", hash |-> "md5"]

\* The end of one pass through the loop body: continue skips the sleep.
next_attempt(a, sleep) ==
    LET b == [a EXCEPT
                !.sleeps = IF sleep /\ a.attempt < max_retries - 1
                           THEN @ + 1 ELSE @,
                !.attempt = @ + 1]
    IN IF b.attempt < max_retries THEN b
       ELSE [b EXCEPT !.pc = "done", !.response = NoResponse]

returned(a, status, body) ==
    [a EXCEPT !.pc = "done", !.response = [status |-> status, body |-> body]]

\* One pass through the loop of _make_authenticated_request.
make_authenticated_request_attempt(a, first, challenge, second, body) ==
    LET a1 == [a EXCEPT !.requests = @ + 1]
    IN CASE first = "200" -> returned(a1, "200", body)
         [] first = "404" -> returned(a1, "404", "none")
         [] first \in {"500", "error"} -> next_attempt(a1, TRUE)
         [] first = "401" /\ challenge = "none" -> next_attempt(a1, FALSE)
         [] OTHER ->
            LET algorithm == get_nonce_algorithm(challenge)
                header == create_auth_header(algorithm)
                a2 == [a1 EXCEPT
                         !.algorithm = algorithm,
                         !.requests = @ + 1,
                         !.cycles = @ + 1,
                         !.headers = Append(@,
                             [challenge |-> challenge,
                              algorithm |-> header.algorithm,
                              hash |-> header.hash,
                              status |-> second])]
            IN IF second = "200" THEN returned(a2, "200", body)
               ELSE IF second = "401" /\ algorithm = "SHA-256"
               THEN next_attempt([a2 EXCEPT !.algorithm = "MD5",
                                            !.fallbacks = @ + 1], FALSE)
               ELSE next_attempt(a2, TRUE)

\* _set_time_of_use taking every 200 for a success.
time_of_use_result_by_status(response) ==
    IF response.status = "200" THEN "true" ELSE "false"

\* What _set_time_of_use makes of the response: True, False, or an exception
\* it does not catch.
time_of_use_result(response) ==
    IF response.status # "200" THEN "false"
    ELSE CASE response.body = "write_success_with" -> "true"
           [] response.body = "not_dict" -> "raised"
           [] OTHER -> "false"

----------------------------------------------------------------------------
(* Shutdown *)

\* handler: the main thread, serving until KeyboardInterrupt, then through
\*   its handler; stop: evcc_interface.shutdown() has set its stop event, the
\*   only one the handler sets; async_exc: SystemExit is pending in the
\*   optimization thread.  Each worker sleeps, is busy with one refresh (the
\*   optimization thread: with one tick) or has exited; late (history): the
\*   workers that began a refresh or a tick after stop.
ThreadsInit ==
    [handler |-> "serving", stop |-> FALSE, async_exc |-> FALSE,
     evcc |-> "sleeping", battery |-> "sleeping", base |-> "sleeping",
     optimizer |-> "sleeping", late |-> {}]

----------------------------------------------------------------------------
(* EOS *)

\* last_start_solution is None (here the empty sequence) until a response
\* with a start solution has been examined.
EosInit == [last_start_solution |-> << >>]

\* The dictionary {"error": ...}: none of the keys the program looks for.
ErrorResponse ==
    [ control |-> FALSE, ac_charge |-> 0, dc_charge |-> 0,
      discharge_allowed |-> 0,
      has_start_solution |-> FALSE, start_solution |-> << >> ]

\* The bodies of EOS: ac_charge, dc_charge and discharge_allowed for the
\* current hour, with or without a start_solution.
Bodies ==
    { b \in [ control : {TRUE}, ac_charge : AcRel, dc_charge : DcRel,
              discharge_allowed : DischargeValues,
              has_start_solution : BOOLEAN, start_solution : StartSolutions ] :
        ~b.has_start_solution => b.start_solution = << >> }

\* eos_set_optimize_request: the response it returns, or raised.  With no
\* connection requests.post raises before response is bound, and the handler
\* of RequestException reads response: UnboundLocalError leaves the method.
\* response.json() raises a RequestException in some versions of requests
\* (json_is_request_exception) and a plain ValueError in the others.
eos_set_optimize_request(outcome, body, json_is_request_exception) ==
    IF outcome = "ok" THEN [raised |-> FALSE, response |-> body]
    ELSE IF outcome \in {"timeout", "http_error"}
    THEN [raised |-> FALSE, response |-> ErrorResponse]
    ELSE IF outcome = "connection"
    THEN [raised |-> TRUE, response |-> ErrorResponse]
    ELSE [raised |-> ~json_is_request_exception, response |-> ErrorResponse]

\* Faulty variant of examine_repsonse_to_control_data: a start solution of
\* length 1 is taken as valid.
examine_repsonse_accepting_one(e, response) ==
    LET valid == response.has_start_solution /\ Len(response.start_solution) >= 1
    IN [eos |-> IF valid
                THEN [e EXCEPT !.last_start_solution = response.start_solution]
                ELSE e,
        ac_charge_demand |-> response.ac_charge,
        dc_charge_demand |-> response.dc_charge,
        discharge_allowed |-> response.discharge_allowed,
        error |-> ~valid]

\* examine_repsonse_to_control_data: the values for the current hour, the
\* error flag and EosInterface after it.
examine_repsonse_to_control_data(e, response) ==
    LET valid == response.has_start_solution /\ Len(response.start_solution) > 1
    IN [eos |-> IF valid
                THEN [e EXCEPT !.last_start_solution = response.start_solution]
                ELSE e,
        ac_charge_demand |-> response.ac_charge,
        dc_charge_demand |-> response.dc_charge,
        discharge_allowed |-> response.discharge_allowed,
        error |-> ~valid]

\* The bodies of EOS with a start_solution of length > 1 and a control
\* vector that is missing or too short.
MalformedBodies ==
    { b \in [ ac_charge : AcRel, dc_charge : DcRel,
              discharge_allowed : DischargeValues,
              start_solution : {<<1, 0>>},
              shape : [{"ac_charge", "dc_charge", "discharge_allowed"}
                           -> VectorShapes] ] :
        \E k \in DOMAIN b.shape : b.shape[k] # "ok" }

\* run_optimization_event from the examination of such a body on: indexing
\* a short vector raises IndexError in examine_repsonse_to_control_data; a
\* missing vector is None, and None * max_charge_power_w raises TypeError
\* in the setter, while bool(None) is False.  raised: the exception leaves
\* run_optimization_event; applied: change_control_state was reached.
examine_and_set_malformed(e, c, body, soc, t) ==
    IF \E k \in DOMAIN body.shape : body.shape[k] = "short"
    THEN [raised |-> TRUE, applied |-> FALSE, eos |-> e, bc |-> c]
    ELSE LET e1 == [e EXCEPT !.last_start_solution = body.start_solution]
             c1 == set_current_ac_charge_demand(c, body.ac_charge, t)
             c2 == set_current_dc_charge_demand(c1, body.dc_charge, t)
             discharge == IF body.shape["discharge_allowed"] = "missing"
                          THEN 0 ELSE body.discharge_allowed
             c3 == set_current_battery_soc(
                       set_current_discharge_allowed(c2, discharge, t), soc)
         IN IF body.shape["ac_charge"] = "missing"
            THEN [raised |-> TRUE, applied |-> FALSE, eos |-> e1, bc |-> c]
            ELSE IF body.shape["dc_charge"] = "missing"
            THEN [raised |-> TRUE, applied |-> FALSE, eos |-> e1, bc |-> c1]
            ELSE [raised |-> FALSE, applied |-> TRUE, eos |-> e1, bc |-> c3]

\* create_optimize_request: the part of the payload taken from
\* EosInterface (None is the empty sequence).
create_optimize_request(e) == [start_solution |-> e.last_start_solution]

\* The optimization thread runs until an exception leaves sched's run().
SchedInit == [alive |-> TRUE]

----------------------------------------------------------------------------
(* EVCC provider *)

\* Faulty variant of request_charging_state: the observer is called with
\* every valid value, changed or not.
request_charging_state_on_every_value(last, result) ==
    IF result \notin {"true", "false"}
    THEN [last_known_charging_state |-> last, observer |-> << >>]
    ELSE [last_known_charging_state |-> (result = "true"),
          observer |-> << (result = "true") >>]

\* request_charging_state: the last known charging state after the poll and
\* the values passed to on_charging_state_change, in order.
request_charging_state(last, result) ==
    IF result \notin {"true", "false"}
    THEN [last_known_charging_state |-> last, observer |-> << >>]
    ELSE LET charging_state == (result = "true")
         IN IF charging_state # last
            THEN [last_known_charging_state |-> charging_state,
                  observer |-> << charging_state >>]
            ELSE [last_known_charging_state |-> last, observer |-> << >>]

----------------------------------------------------------------------------
(* History *)

\* lastOp: the kind of the last step: "apply" for change_control_state,
\*   "override" for an accepted set_mode_override, "override_clear" for a
\*   clear_mode_override that directly follows one, "clear" for any other
\*   explicit clear, "poll" for an EVCC poll that calls no observer, "other"
\*   for every other step.
\* ov: start time, duration, mode and AC charge demand of the override in
\*   force (NoOverride if none).
\* preAc, rate: after an accepted set_mode_override, the EOS-driven AC charge
\*   demand before the call and the charge rate passed to it (0 otherwise).
\* wroteQuiet: the last change_control_state wrote to the inverter and
\*   neither current_overall_state nor current_ac_charge_demand changed since.
\* recorded, windows, window, answer: where the window is observed, the
\*   times at which a timestamp was recorded, the time windows asked for so
\*   far, and the time window and the result of the last
\*   was_overall_state_changed_recently (lastOp "query").
\* tick: after a scheduler tick (lastOp "apply" if it applied the response,
\*   "skipped" if not, "crashed" if an exception ended it), how the request
\*   to EOS ended and the response examined; NoTick after every other step.
\* poll, evMode, observer: after an EVCC poll, what the poll yielded, the mode
\*   EVCC reported with it, and the values it passed to the observer; "none",
\*   "none" and << >> after every other step.
NoOverride == [t0 |-> 0, d |-> 0, mode |-> 0, ac |-> 0]

NoTick == [outcome |-> "none", response |-> ErrorResponse]

\* The last refresh of the SoC: how the fetch ended, whether the observer
\* was called; good: the last value fetched with success, if any.
NoRefresh == [outcome |-> "none", called |-> FALSE, good |-> << >>]

\* The last refresh of the prices: how the fetch ended; succeeded: a
\* refresh before it had fetched prices.
NoFetch == [outcome |-> "none", succeeded |-> FALSE, good |-> FALSE]

HistInit ==
    [ lastOp |-> "other",
      tick |-> NoTick,
      ov |-> NoOverride,
      preAc |-> 0,
      rate |-> 0,
      wroteQuiet |-> FALSE,
      poll |-> "none",
      evMode |-> "none",
      observer |-> << >>,
      recorded |-> {},
      windows |-> {},
      window |-> 0,
      answer |-> FALSE,
      valid_solution |-> << >>,
      soc |-> NoRefresh,
      fetch |-> NoFetch ]

SameOutput(c, d) ==
    /\ c.current_overall_state = d.current_overall_state
    /\ c.current_ac_charge_demand = d.current_ac_charge_demand

\* History after a step of kind op that leaves BaseControl alone.
Passed(op) ==
    [hist EXCEPT !.lastOp = op, !.preAc = 0, !.rate = 0, !.tick = NoTick,
                 !.poll = "none", !.evMode = "none", !.observer = << >>]

\* History after a BaseControl operation of kind op that led from bc to c.
Note(op, c) ==
    [Passed(op) EXCEPT !.ov = IF c.override_active THEN @ ELSE NoOverride,
                       !.wroteQuiet = @ /\ SameOutput(bc, c)]

Fits(c, limit) == Len(c.state_change_timestamps) <= limit

----------------------------------------------------------------------------
(* Actions *)

Init ==
    /\ bc = BaseControlInit
    /\ now = 0
    /\ evcc = FALSE
    /\ battery = BatteryInit
    /\ inverter = InverterInit
    /\ hist = HistInit
    /\ eos = EosInit
    /\ sched = SchedInit
    /\ worker = WorkerInit
    /\ threads = ThreadsInit
    /\ fronius = FroniusInit
    /\ auth = AuthInit
    /\ battery_data = BatteryData
    /\ price = PriceInit("default", << >>, FALSE)
    /\ pv = PvInit("akkudoktor", << 1000 >>)
    /\ boot = BootInit
    /\ setter = SetterInit

\* The clock moves on to the next instant.
Tick ==
    /\ \E t \in Instants : t > now
    /\ now' = CHOOSE t \in Instants :
                  t > now /\ \A u \in Instants : u > now => t <= u
    /\ hist' = Passed("other")
    /\ UNCHANGED <<bc, evcc, battery, inverter, others>>

\* A call of a BaseControl method that leads to c, with history h.
Call(c, h, limit) ==
    /\ Fits(c, limit)
    /\ bc' = c
    /\ hist' = h
    /\ UNCHANGED <<now, evcc, battery, inverter, others>>

Control(c) == Call(c, Note("other", c), MaxStamps)

SetAcChargeDemand ==
    \E v \in AcRel : Control(set_current_ac_charge_demand(bc, v, now))

SetDcChargeDemand ==
    \E v \in DcRel : Control(set_current_dc_charge_demand(bc, v, now))

SetDischargeAllowed ==
    \E v \in DischargeValues : Control(set_current_discharge_allowed(bc, v, now))

SetEvccChargingState ==
    \E v \in BOOLEAN : Control(set_current_evcc_charging_state(bc, v, now))

SetEvccChargingMode ==
    \E v \in EvModes : Control(set_current_evcc_charging_mode(bc, v, now))

SetBatterySoc ==
    \E v \in SocValues : Control(set_current_battery_soc(bc, v))

\* One round of __update_base_control_loop.  The worker is never blocked:
\* the round runs whatever the length of the window.
UpdateLoop ==
    LET c == set_current_overall_state(bc, now)
    IN /\ bc' = c
       /\ hist' = Note("other", c)
       /\ UNCHANGED <<now, evcc, battery, inverter, others>>

WasOverallStateChangedRecently ==
    \E w \in Windows : Control(was_overall_state_changed_recently(bc, w, now))

\* The history after set_mode_override(mode, duration, charge_rate) led
\* from bc to c.
Overridden(mode, duration, charge_rate, c) ==
    LET accepted == mode # -1 /\ 0 <= duration /\ duration <= 12 * 60
        op == IF accepted THEN "override"
              ELSE IF mode # -1 THEN "other"
              ELSE IF hist.lastOp = "override" THEN "override_clear"
              ELSE "clear"
    IN [Note(op, c) EXCEPT
          !.ov = IF accepted
                 THEN [t0 |-> now, d |-> duration, mode |-> mode,
                       ac |-> c.current_ac_charge_demand]
                 ELSE IF c.override_active THEN hist.ov
                 ELSE NoOverride,
          !.rate = IF accepted THEN charge_rate ELSE 0,
          !.preAc = IF accepted
                    THEN IF bc.override_active
                         THEN bc.current_ac_charge_demand_no_override
                         ELSE bc.current_ac_charge_demand
                    ELSE IF op = "override_clear" THEN hist.preAc
                    ELSE 0]

Override(limit) ==
    \E mode \in OverrideModes, duration \in Durations, charge_rate \in ChargeRates :
        LET c == set_mode_override(bc, mode, duration, charge_rate, now)
        IN Call(c, Overridden(mode, duration, charge_rate, c), limit)

Clear(limit) ==
    LET c == clear_mode_override(bc, now)
        op == IF hist.lastOp = "override" THEN "override_clear" ELSE "clear"
    IN /\ Fits(c, limit)
       /\ bc' = c
       /\ hist' = [Note(op, c) EXCEPT
                     !.preAc = IF op = "override_clear" THEN hist.preAc ELSE 0]
       /\ UNCHANGED <<now, evcc, battery, inverter, others>>

\* set_mode_override with whatever mode the caller passes.
SetModeOverrideRequested ==
    \E mode \in RequestedModes, duration \in Durations,
       charge_rate \in ChargeRates :
        LET c == set_mode_override(bc, mode, duration, charge_rate, now)
        IN Call(c, Overridden(mode, duration, charge_rate, c), MaxWindow)

\* The override interface used by any caller of BaseControl ...
SetModeOverride == Override(MaxStamps)

ClearModeOverride == Clear(MaxStamps)

\* ... and by the operator of the running program.
OperatorOverride == Override(MaxWindow)

OperatorClear == Clear(MaxWindow)

\* Filling the window: state changes and overrides at one instant, with no
\* was_overall_state_changed_recently in between.
FillDischargeAllowed ==
    \E v \in DischargeValues :
        LET c == set_current_discharge_allowed(bc, v, now)
        IN Call(c, Note("other", c), MaxFill)

FillModeOverride ==
    LET c == set_mode_override(bc, MODE_AVOID_DISCHARGE, 1, 0, now)
    IN Call(c, Overridden(MODE_AVOID_DISCHARGE, 1, 0, c), MaxFill)

\* Observing the window: h with the time of a timestamp that the step to c
\* recorded.
Recorded(h, c) ==
    [h EXCEPT !.recorded =
        IF c.state_change_timestamps # bc.state_change_timestamps
        THEN @ \cup {now} ELSE @]

WindowAcChargeDemand ==
    \E v \in AcRel :
        LET c == set_current_ac_charge_demand(bc, v, now)
        IN Call(c, Recorded(Note("other", c), c), MaxWindow)

WindowDischargeAllowed ==
    \E v \in DischargeValues :
        LET c == set_current_discharge_allowed(bc, v, now)
        IN Call(c, Recorded(Note("other", c), c), MaxWindow)

WindowModeOverride ==
    \E mode \in {-1, MODE_AVOID_DISCHARGE} :
        LET c == set_mode_override(bc, mode, 1, 0, now)
        IN Call(c, Recorded(Overridden(mode, 1, 0, c), c), MaxWindow)

WindowUpdateLoop ==
    LET c == set_current_overall_state(bc, now)
    IN Call(c, Recorded(Note("other", c), c), MaxWindow)

WindowQuery ==
    \E w \in QueryWindows :
        LET c == was_overall_state_changed_recently(bc, w, now)
        IN Call(c, [Note("query", c) EXCEPT
                      !.windows = @ \cup {w},
                      !.window = w,
                      !.answer = Len(c.state_change_timestamps) > 0],
                MaxWindow)

\* The effect of one change_control_state call, made in control state c with
\* the EVCC flag charging, on control, inverter and history (h: the history
\* of the step that makes the call).
ApplyAs(c, charging, h) ==
    LET r == change_control_state(c, charging, now)
    IN /\ Fits(r.bc, MaxWindow)
       /\ bc' = r.bc
       /\ inverter' = IF r.wrote THEN r.call ELSE inverter
       /\ hist' = [h EXCEPT
                     !.ov = IF r.bc.override_active THEN @ ELSE NoOverride,
                     !.wroteQuiet = r.wrote]

Apply(c, charging) == ApplyAs(c, charging, Passed("apply"))

\* One scheduler tick with a valid EOS response: setting_control_data, then
\* change_control_state.
RunOptimizationEvent ==
    \E ac \in AcRel, dc \in DcRel, discharge \in DischargeValues :
        /\ Apply(setting_control_data(bc, ac, dc, discharge,
                                      battery.current_soc, now), evcc)
        /\ UNCHANGED <<now, evcc, battery, others>>

\* One scheduler tick, run_optimization_event: the request to EOS, the
\* examination of the response, and with a valid one setting_control_data
\* and change_control_state.  An exception ends the thread.
OptimizationTick ==
    /\ sched.alive
    /\ \E outcome \in EosOutcomes, body \in Bodies,
          json_is_request_exception \in BOOLEAN :
          LET r == eos_set_optimize_request(outcome, body,
                                            json_is_request_exception)
              e == examine_repsonse_to_control_data(eos, r.response)
              t == [outcome |-> outcome, response |-> r.response]
              v == IF /\ r.response.has_start_solution
                      /\ Len(r.response.start_solution) > 1
                   THEN r.response.start_solution ELSE hist.valid_solution
          IN IF r.raised
             THEN /\ sched' = [sched EXCEPT !.alive = FALSE]
                  /\ hist' = [Passed("crashed") EXCEPT !.tick = t]
                  /\ UNCHANGED <<bc, inverter, eos>>
             ELSE /\ eos' = e.eos
                  /\ sched' = sched
                  /\ IF e.error
                     THEN /\ hist' = [Passed("skipped") EXCEPT
                                        !.tick = t, !.valid_solution = v]
                          /\ UNCHANGED <<bc, inverter>>
                     ELSE ApplyAs(setting_control_data(
                                      bc, e.ac_charge_demand, e.dc_charge_demand,
                                      e.discharge_allowed, battery.current_soc,
                                      now),
                                  evcc, [Passed("apply") EXCEPT
                                           !.tick = t, !.valid_solution = v])
    /\ UNCHANGED <<now, evcc, battery, worker, threads, fronius, more>>

\* A scheduler tick whose response has a valid start_solution and a
\* malformed control vector.
MalformedTick ==
    /\ sched.alive
    /\ \E body \in MalformedBodies :
          LET r == examine_and_set_malformed(eos, bc, body,
                                             battery.current_soc, now)
              h == [Passed(IF r.raised THEN "crashed" ELSE "apply") EXCEPT
                      !.tick = [outcome |-> "malformed",
                                response |-> ErrorResponse],
                      !.valid_solution = r.eos.last_start_solution]
          IN /\ eos' = r.eos
             /\ sched' = [sched EXCEPT !.alive = ~r.raised]
             /\ IF r.applied
                THEN ApplyAs(r.bc, evcc, h)
                ELSE /\ Fits(r.bc, MaxWindow)
                     /\ bc' = r.bc
                     /\ hist' = h
                     /\ inverter' = inverter
    /\ UNCHANGED <<now, evcc, battery, worker, threads, fronius, more>>

\* BaseControl's update thread, preempted inside __set_current_overall_state:
\* first the override check and the computation of new_state ...
WorkerCompute ==
    /\ worker.pc = "idle"
    /\ IF bc.override_active
       THEN LET c == set_current_overall_state(bc, now)
            IN /\ Fits(c, MaxStamps)
               /\ bc' = c
               /\ hist' = Note("other", c)
               /\ worker' = worker
       ELSE /\ worker' = [pc |-> "computed",
                          new_state |-> evcc_state(bc, base_state(bc)),
                          grid_charge_value_changed |->
                              bc.current_ac_charge_demand
                                  # bc.last_ac_charge_demand]
            /\ hist' = Passed("other")
            /\ bc' = bc
    /\ UNCHANGED <<now, evcc, battery, inverter, eos, sched, threads, fronius,
                   more>>

\* ... then the comparison, the timestamp and the assignments.
WorkerCommit ==
    /\ worker.pc = "computed"
    /\ LET c == commit_state(bc, worker.new_state,
                             worker.grid_charge_value_changed, now)
       IN /\ Fits(c, MaxStamps)
          /\ bc' = c
          /\ hist' = Note("other", c)
    /\ worker' = WorkerInit
    /\ UNCHANGED <<now, evcc, battery, inverter, eos, sched, threads, fronius,
                   more>>

\* The inverter driver's operations, each with a request to the inverter
\* that succeeds or fails.
Fronius(f) ==
    /\ fronius.up
    /\ fronius' = f
    /\ UNCHANGED <<bc, now, evcc, battery, inverter, hist, eos, sched, worker,
                   threads, more>>

FroniusForceCharge ==
    \E charge_power_w \in ChargePowers, ok \in BOOLEAN :
        Fronius(set_mode(fronius, force_charge_rules(charge_power_w), ok))

FroniusAvoidDischarge ==
    \E ok \in BOOLEAN : Fronius(set_mode(fronius, mode_hold_rules, ok))

FroniusAllowDischarge ==
    \E ok \in BOOLEAN : Fronius(set_mode(fronius, mode_normal_rules, ok))

FroniusBackup ==
    \E ok \in BOOLEAN : Fronius(backup_current_config(fronius, ok))

FroniusShutdown ==
    \E ok \in BOOLEAN : Fronius(fronius_shutdown(fronius, ok))

\* The driver is constructed with the rates of the configuration.
RulesStart ==
    /\ "last" \notin DOMAIN fronius
    /\ \E pv_rate \in PvChargeRates, grid_rate \in GridChargeRates :
          fronius' = FroniusConfigured(pv_rate, grid_rate)
    /\ UNCHANGED <<bc, now, evcc, battery, inverter, hist, eos, sched, worker,
                   threads, more>>

\* A mode operation op of the configured driver writes rules.
Rules(op, power, rules) ==
    /\ "last" \in DOMAIN fronius
    /\ \E ok \in BOOLEAN :
          fronius' = [set_mode(fronius, rules, ok) EXCEPT
                        !.last = [op |-> op, power |-> power, ok |-> ok]]
    /\ UNCHANGED <<bc, now, evcc, battery, inverter, hist, eos, sched, worker,
                   threads, more>>

RulesForceCharge ==
    "last" \in DOMAIN fronius /\
    \E charge_power_w \in ChargePowers :
        Rules("force_charge", charge_power_w,
              set_mode_force_charge_rules(fronius, charge_power_w))

RulesAvoidDischarge ==
    "last" \in DOMAIN fronius /\
    Rules("avoid_discharge", 0, set_mode_hold_rules(fronius))

RulesAllowDischarge ==
    "last" \in DOMAIN fronius /\
    Rules("allow_discharge", 0, set_mode_normal_rules(fronius))

\* api_set_max_pv_charge_rate
RulesSetPvChargeRate ==
    /\ "last" \in DOMAIN fronius
    /\ \E rate \in PvChargeRates :
          fronius' = [fronius EXCEPT
                        !.max_pv_charge_rate = rate,
                        !.last = [op |-> "none", power |-> 0, ok |-> FALSE]]
    /\ UNCHANGED <<bc, now, evcc, battery, inverter, hist, eos, sched, worker,
                   threads, more>>

\* _set_time_of_use begins: the loop of _make_authenticated_request is
\* entered.
AuthBegin ==
    /\ auth.pc \in {"idle", "done"}
    /\ auth' = [AuthInit EXCEPT !.pc = "running", !.algorithm = auth.algorithm]
    /\ UNCHANGED <<bc, now, evcc, battery, inverter, hist, eos, sched, worker,
                   threads, fronius, battery_data, price, pv, boot, setter>>

\* One pass through the loop; when the loop is left, _set_time_of_use
\* reports.
AuthAttempt ==
    /\ auth.pc = "running"
    /\ \E first \in FirstStatuses, challenge \in Challenges,
          second \in SecondStatuses, body \in WriteBodies :
          LET a == make_authenticated_request_attempt(auth, first, challenge,
                                                      second, body)
          IN auth' = IF a.pc = "done"
                     THEN [a EXCEPT !.reported = time_of_use_result(a.response)]
                     ELSE a
    /\ UNCHANGED <<bc, now, evcc, battery, inverter, hist, eos, sched, worker,
                   threads, fronius, battery_data, price, pv, boot, setter>>

\* Shutdown.  A step of the threads at shutdown leads to th.
Threads(th) ==
    /\ threads' = th
    /\ UNCHANGED <<bc, now, evcc, battery, inverter, hist, eos, sched, worker,
                   fronius, more>>

\* KeyboardInterrupt in serve_forever: the server is stopped and the
\* inverter shut down.
Interrupt ==
    /\ threads.handler = "serving"
    /\ Threads([threads EXCEPT !.handler = "evcc_shutdown"])

\* evcc_interface.shutdown(): the stop event is set, then join().
HandlerStopsEvcc ==
    /\ threads.handler = "evcc_shutdown"
    /\ Threads([threads EXCEPT !.handler = "evcc_join", !.stop = TRUE])

HandlerJoinsEvcc ==
    /\ threads.handler = "evcc_join"
    /\ threads.evcc = "exited"
    /\ Threads([threads EXCEPT !.handler = "optimizer_join"])

\* optimization_thread.join(timeout=10): a thread still alive gets SystemExit
\* set as asynchronous exception; then sys.exit(0).
HandlerJoinsOptimizer ==
    /\ threads.handler = "optimizer_join"
    /\ Threads([threads EXCEPT
                  !.handler = "exiting",
                  !.async_exc = threads.optimizer # "exited"])

\* The process ends when its last non-daemon thread, the optimization
\* thread, has ended; the daemon threads end with it.
ProcessExit ==
    /\ threads.handler = "exiting"
    /\ threads.optimizer = "exited"
    /\ Threads([threads EXCEPT !.handler = "exited", !.evcc = "exited",
                               !.battery = "exited", !.base = "exited"])

\* _update_charging_state_loop: after its sleep the loop tests the stop
\* event.
EvccWorkerWakes ==
    /\ threads.evcc = "sleeping"
    /\ Threads([threads EXCEPT
                  !.evcc = IF threads.stop THEN "exited" ELSE "busy"])

EvccWorkerSleeps ==
    /\ threads.evcc = "busy"
    /\ Threads([threads EXCEPT !.evcc = "sleeping"])

\* _update_state_loop of the battery provider and __update_base_control_loop
\* test stop events of their own, which the handler does not set.
WorkerWakes(w) ==
    /\ threads[w] = "sleeping"
    /\ Threads([threads EXCEPT
                  ![w] = "busy",
                  !.late = IF threads.stop THEN @ \cup {w} ELSE @])

WorkerSleeps(w) ==
    /\ threads[w] = "busy"
    /\ Threads([threads EXCEPT ![w] = "sleeping"])

BatteryWorkerWakes == WorkerWakes("battery")

BatteryWorkerSleeps == WorkerSleeps("battery")

BaseWorkerWakes == WorkerWakes("base")

BaseWorkerSleeps == WorkerSleeps("base")

\* sched's run(): after its sleep the next run_optimization_event begins,
\* unless the asynchronous exception is raised first.
OptimizerWakes ==
    /\ threads.optimizer = "sleeping"
    /\ IF threads.async_exc
       THEN Threads([threads EXCEPT !.optimizer = "exited"])
       ELSE Threads([threads EXCEPT
                       !.optimizer = "busy",
                       !.late = IF threads.stop THEN @ \cup {"optimizer"}
                                ELSE @])

OptimizerSleeps ==
    /\ threads.optimizer = "busy"
    /\ Threads([threads EXCEPT
                  !.optimizer = IF threads.async_exc THEN "exited"
                                ELSE "sleeping"])

\* The rules change_control_state has the inverter driver write for a call.
rules_of(call) ==
    IF call.mode = "force_charge" THEN force_charge_rules(call.power)
    ELSE IF call.mode = "avoid_discharge" THEN mode_hold_rules
    ELSE mode_normal_rules

\* change_control_state up to the inverter driver: control state c, charging
\* flag of the EVCC interface, threads th after the step.
ChangeControlState(c, charging, th) ==
    LET r == change_control_state(c, charging, now)
    IN /\ Fits(r.bc, MaxWindow)
       /\ bc' = r.bc
       /\ inverter' = IF r.wrote THEN r.call ELSE inverter
       /\ \E ok \in BOOLEAN :
              fronius' = IF r.wrote THEN set_mode(fronius, rules_of(r.call), ok)
                         ELSE fronius
       /\ threads' = th
       /\ UNCHANGED <<now, battery, hist, eos, sched, worker, more>>

\* KeyboardInterrupt in serve_forever: the server is stopped and
\* inverter_interface.shutdown() restores the saved rules.
InterruptRestores ==
    /\ threads.handler = "serving"
    /\ threads' = [threads EXCEPT !.handler = "evcc_shutdown"]
    /\ \E ok \in BOOLEAN : fronius' = fronius_shutdown(fronius, ok)
    /\ UNCHANGED <<bc, now, evcc, battery, inverter, hist, eos, sched, worker,
                   more>>

\* backup_current_config, called on the driver before any mode is written
\* (the program itself never calls it: the file is there from another
\* caller of the driver or not at all).
StartupBackup ==
    /\ threads.handler = "serving"
    /\ ~fronius.backup.exists
    /\ ~fronius.mutated
    /\ fronius' = backup_current_config(fronius, TRUE)
    /\ UNCHANGED <<bc, now, evcc, battery, inverter, hist, eos, sched, worker,
                   threads, more>>

\* The poll of a busy EVCC worker finds the charging flag changed: the
\* callback runs change_control_state on the worker's thread.
CallbackWritesMode ==
    /\ threads.evcc = "busy"
    /\ \E result \in {"true", "false"} :
          LET r == request_charging_state(evcc, result)
          IN /\ r.observer # << >>
             /\ evcc' = r.last_known_charging_state
             /\ ChangeControlState(bc, r.observer[1],
                                   [threads EXCEPT !.evcc = "sleeping"])

\* The tick of a busy optimization thread: setting_control_data, then
\* change_control_state.
TickWritesMode ==
    /\ threads.optimizer = "busy"
    /\ evcc' = evcc
    /\ \E ac \in AcRel, dc \in DcRel, discharge \in DischargeValues :
          ChangeControlState(
              setting_control_data(bc, ac, dc, discharge, battery.current_soc,
                                   now),
              evcc,
              [threads EXCEPT
                 !.optimizer = IF threads.async_exc THEN "exited"
                               ELSE "sleeping"])

\* One EVCC poll: a failed or malformed poll changes nothing, a changed
\* charging flag is stored and the callback runs change_control_state.
RequestChargingState ==
    \E result \in PollResults, mode \in PolledModes :
        LET r == request_charging_state(evcc, result)
            h == [Passed(IF r.observer = << >> THEN "poll" ELSE "apply") EXCEPT
                    !.poll = result,
                    !.evMode = IF result \in {"true", "false"}
                               THEN mode ELSE "none",
                    !.observer = r.observer]
        IN /\ evcc' = r.last_known_charging_state
           /\ IF r.observer = << >>
              THEN /\ hist' = h
                   /\ UNCHANGED <<bc, inverter>>
              ELSE ApplyAs(bc, r.observer[1], h)
           /\ UNCHANGED <<now, battery, others>>

\* One round of the battery provider's _update_state_loop.
BatteryUpdate ==
    \E soc \in SocValues :
        /\ battery' = update_state(battery, soc)
        /\ hist' = Passed("other")
        /\ UNCHANGED <<bc, now, evcc, inverter, others>>

\* The program starts with a battery configuration and its worker makes its
\* first refresh.
BatteryStart ==
    \E data \in [capacity_wh : Capacities, max_charge_power_w : MaxChargePowers],
       soc \in AllSocs :
        /\ battery_data' = data
        /\ battery' = update_state_of(BatteryInit, soc, data)
        /\ UNCHANGED <<bc, now, evcc, inverter, hist, eos, sched, worker,
                       threads, fronius, auth, price, pv, boot, setter>>

\* A later refresh of the worker.
BatteryRefresh ==
    \E soc \in AllSocs :
        /\ battery' = update_state_of(battery, soc, battery_data)
        /\ UNCHANGED <<bc, now, evcc, inverter, hist, eos, sched, worker,
                       threads, fronius, more>>

\* BatteryInterface is constructed for a source that is fetched.
SocStart ==
    /\ "source" \notin DOMAIN battery_data
    /\ \E src \in SocSources, curve \in BOOLEAN, power \in MaxChargePowers :
          battery_data' = [capacity_wh |-> capacity_wh,
                           max_charge_power_w |-> power,
                           source |-> src,
                           charging_curve_enabled |-> curve]
    /\ battery' = BatteryInterfaceInit
    /\ UNCHANGED <<bc, now, evcc, inverter, hist, eos, sched, worker,
                   threads, fronius, auth, price, pv, boot, setter>>

\* One refresh of its worker.
SocRefresh ==
    /\ "source" \in DOMAIN battery_data
    /\ \E outcome \in SocOutcomes, state \in RawStates :
          LET r == update_state_loop(battery, battery_data, outcome, state)
          IN /\ battery' = r.battery
             /\ hist' = [hist EXCEPT
                           !.soc = [outcome |-> outcome,
                                    called |-> r.called,
                                    good |-> IF outcome = "ok"
                                             THEN << r.battery.current_soc >>
                                             ELSE @.good]]
    /\ UNCHANGED <<bc, now, evcc, inverter, eos, sched, worker, threads,
                   fronius, more>>

\* PriceInterface is constructed with a configuration.
PriceStart ==
    \E src \in PriceSources, fixed_24h_array \in FixedArrays,
       negative_price_switch \in BOOLEAN :
        /\ src # "fixed_24h" => fixed_24h_array = << >>
        /\ price' = PriceInit(src, fixed_24h_array, negative_price_switch)
        /\ hist' = [hist EXCEPT !.fetch = NoFetch]
        /\ UNCHANGED <<bc, now, evcc, battery, inverter, eos, sched,
                       worker, threads, fronius, auth, battery_data, pv, boot,
                       setter>>

\* update_prices(48, start_time) with what upstream answers.
UpdatePrices ==
    \E current_hour \in Hours, fetch \in Fetches :
        /\ fetch.outcome = "errors" => price.src = "tibber"
        /\ price' = update_prices(price, EOS_TGT_DURATION, current_hour, fetch)
        /\ hist' = [hist EXCEPT
                      !.fetch = [outcome |-> fetch.outcome,
                                 succeeded |-> @.good,
                                 good |-> @.good \/ fetch.outcome = "ok"]]
        /\ UNCHANGED <<bc, now, evcc, battery, inverter, eos, sched,
                       worker, threads, fronius, auth, battery_data, pv, boot,
                       setter>>

\* PvInterface is constructed with a source and its arrays; evcc has the
\* site as its one entry.
PvStart ==
    \E source \in PvSources, config \in PvArrays :
        /\ source = "evcc" => Len(config) = 1
        /\ pv' = PvInit(source, config)
        /\ UNCHANGED <<bc, now, evcc, battery, inverter, hist, eos, sched,
                       worker, threads, fronius, auth, battery_data, price,
                       boot, setter>>

\* One pass of the update loop, with one request per entry.
PvUpdate ==
    \E fetches \in [1..Len(pv.config) -> PvFetches],
       temperature \in TemperatureFetches :
        /\ pv' = update_pv_state(pv, fetches, temperature)
        /\ UNCHANGED <<bc, now, evcc, battery, inverter, hist, eos, sched,
                       worker, threads, fronius, auth, battery_data, price,
                       boot, setter>>

Boot(b) ==
    /\ boot' = b
    /\ UNCHANGED <<bc, now, evcc, battery, inverter, hist, eos, sched, worker,
                   threads, fronius, auth, battery_data, price, pv, setter>>

\* The program is started in a directory with or without a config.yaml.
ProgramStart ==
    /\ boot.pc \in {"off", "exited"}
    /\ \E config_file \in BOOLEAN, timeout \in Timeouts,
          refresh_time \in RefreshTimes :
          /\ ~config_file =>
                 timeout = default_timeout /\ refresh_time = default_refresh_time
          /\ Boot([BootInit EXCEPT !.pc = "started",
                                   !.config_file = config_file,
                                   !.timeout = timeout,
                                   !.refresh_time = refresh_time])

\* config_manager = ConfigManager(current_dir)
LoadConfig ==
    /\ boot.pc = "started"
    /\ Boot(load_config(boot))

\* The interfaces are constructed and start their update threads.
StartWorkers ==
    /\ boot.pc = "loaded"
    /\ Boot([boot EXCEPT !.pc = "running", !.workers = TRUE])

\* A step of the optimization thread inside a tick: control state c, setter
\* position s.
Setting(c, s) ==
    /\ Fits(c, MaxWindow)
    /\ bc' = c
    /\ setter' = s
    /\ hist' = Note("other", c)
    /\ UNCHANGED <<now, evcc, battery, inverter, eos, sched, worker, threads,
                   fronius, auth, battery_data, price, pv, boot>>

\* setting_control_data, setter by setter ...
SettingAcChargeDemand ==
    /\ setter.pc = "idle"
    /\ \E ac \in AcRel, dc \in DcRel, discharge \in DischargeValues :
          Setting(set_current_ac_charge_demand(bc, ac, now),
                  [pc |-> "ac", ac |-> ac, dc |-> dc, discharge |-> discharge,
                   state_before |-> bc,
                   state_after |->
                       setting_control_data(bc, ac, dc, discharge,
                                            battery.current_soc, now)])

SettingDcChargeDemand ==
    /\ setter.pc = "ac"
    /\ Setting(set_current_dc_charge_demand(bc, setter.dc, now),
               [setter EXCEPT !.pc = "dc"])

SettingDischargeAllowed ==
    /\ setter.pc = "dc"
    /\ Setting(set_current_battery_soc(
                   set_current_discharge_allowed(bc, setter.discharge, now),
                   battery.current_soc),
               [setter EXCEPT !.pc = "set"])

\* ... and the change_control_state that follows it in the tick.
SettingApplied ==
    /\ setter.pc = "set"
    /\ Apply(bc, evcc)
    /\ setter' = SetterInit
    /\ UNCHANGED <<now, evcc, battery, eos, sched, worker, threads, fronius,
                   auth, battery_data, price, pv, boot>>

\* BaseControl on its own: every operation of its interface, in any order
\* and at any time.
Next ==
    \/ Tick
    \/ SetAcChargeDemand
    \/ SetDcChargeDemand
    \/ SetDischargeAllowed
    \/ SetEvccChargingState
    \/ SetEvccChargingMode
    \/ SetBatterySoc
    \/ UpdateLoop
    \/ WasOverallStateChangedRecently
    \/ SetModeOverride
    \/ ClearModeOverride

Spec == Init /\ [][Next]_vars

\* The program: the scheduler's ticks, the EVCC poll, the battery provider,
\* BaseControl's periodic worker and the operator's override.
NextProgram ==
    \/ Tick
    \/ RunOptimizationEvent
    \/ RequestChargingState
    \/ BatteryUpdate
    \/ UpdateLoop
    \/ OperatorOverride
    \/ OperatorClear

SpecProgram == Init /\ [][NextProgram]_vars

\* The optimization thread with every outcome of the request to EOS, and
\* the EVCC poll.
NextScheduler ==
    \/ Tick
    \/ OptimizationTick
    \/ RequestChargingState

SpecScheduler == Init /\ [][NextScheduler]_vars

\* BaseControl with its update thread preempted inside a re-evaluation while
\* other threads call the setters.
NextConcurrent ==
    \/ Tick
    \/ SetAcChargeDemand
    \/ SetDischargeAllowed
    \/ SetEvccChargingState
    \/ WasOverallStateChangedRecently
    \/ SetModeOverride
    \/ WorkerCompute
    \/ WorkerCommit

SpecConcurrent == Init /\ [][NextConcurrent]_vars

\* The threads of the program from KeyboardInterrupt to the end of the
\* process.
NextShutdown ==
    \/ Interrupt
    \/ HandlerStopsEvcc
    \/ HandlerJoinsEvcc
    \/ HandlerJoinsOptimizer
    \/ ProcessExit
    \/ EvccWorkerWakes
    \/ EvccWorkerSleeps
    \/ BatteryWorkerWakes
    \/ BatteryWorkerSleeps
    \/ BaseWorkerWakes
    \/ BaseWorkerSleeps
    \/ OptimizerWakes
    \/ OptimizerSleeps

SpecShutdown == Init /\ [][NextShutdown]_vars

\* The inverter driver from startup to shutdown().
NextInverter ==
    \/ FroniusForceCharge
    \/ FroniusAvoidDischarge
    \/ FroniusAllowDischarge
    \/ FroniusBackup
    \/ FroniusShutdown

SpecInverter == Init /\ [][NextInverter]_vars

\* The rule-set writes of the inverter driver against an inverter that
\* answers every request as it likes.
NextAuth ==
    \/ AuthBegin
    \/ AuthAttempt

SpecAuth == Init /\ [][NextAuth]_vars

\* The battery provider under every configuration and state of charge.
NextBattery ==
    \/ BatteryStart
    \/ BatteryRefresh

SpecBattery == Init /\ [][NextBattery]_vars

\* The price provider under every configuration, start hour and answer of
\* upstream.
NextPrice ==
    \/ PriceStart
    \/ UpdatePrices

SpecPrice == Init /\ [][NextPrice]_vars

\* The PV provider under every source, configuration and answer of
\* upstream.
NextPv ==
    \/ PvStart
    \/ PvUpdate

SpecPv == Init /\ [][NextPv]_vars

\* The start of the program under every configuration.
NextBoot ==
    \/ ProgramStart
    \/ LoadConfig
    \/ StartWorkers

SpecBoot == Init /\ [][NextBoot]_vars

\* The tick of the optimization thread, setter by setter, and the polls of
\* the EVCC thread in between.
NextSetting ==
    \/ Tick
    \/ SettingAcChargeDemand
    \/ SettingDcChargeDemand
    \/ SettingDischargeAllowed
    \/ SettingApplied
    \/ RequestChargingState

SpecSetting == Init /\ [][NextSetting]_vars

\* The workers that write inverter modes and the main thread from
\* KeyboardInterrupt on.
NextRestore ==
    \/ StartupBackup
    \/ InterruptRestores
    \/ HandlerStopsEvcc
    \/ HandlerJoinsEvcc
    \/ HandlerJoinsOptimizer
    \/ ProcessExit
    \/ EvccWorkerWakes
    \/ EvccWorkerSleeps
    \/ CallbackWritesMode
    \/ OptimizerWakes
    \/ OptimizerSleeps
    \/ TickWritesMode

SpecRestore == Init /\ [][NextRestore]_vars

\* BaseControl with override requests of any mode.
NextOverride ==
    \/ Tick
    \/ SetAcChargeDemand
    \/ SetDischargeAllowed
    \/ UpdateLoop
    \/ SetModeOverrideRequested

SpecOverride == Init /\ [][NextOverride]_vars

\* The optimization thread with responses of every kind.
NextMalformed ==
    \/ Tick
    \/ OptimizationTick
    \/ MalformedTick

SpecMalformed == Init /\ [][NextMalformed]_vars

\* The battery provider with a fetched SoC.
NextSoc ==
    \/ SocStart
    \/ SocRefresh

SpecSoc == Init /\ [][NextSoc]_vars

\* The mode operations of the inverter driver under every configuration.
NextRules ==
    \/ RulesStart
    \/ RulesForceCharge
    \/ RulesAvoidDischarge
    \/ RulesAllowDischarge
    \/ RulesSetPvChargeRate

SpecRules == Init /\ [][NextRules]_vars

\* The window filled up at one instant.
NextFill ==
    \/ FillDischargeAllowed
    \/ FillModeOverride

SpecFill == Init /\ [][NextFill]_vars

\* The window observed: changes, overrides and queries with any time window.
NextWindow ==
    \/ Tick
    \/ WindowAcChargeDemand
    \/ WindowDischargeAllowed
    \/ WindowModeOverride
    \/ WindowUpdateLoop
    \/ WindowQuery

SpecWindow == Init /\ [][NextWindow]_vars

\* The scheduler's ticks, the EVCC poll and the battery provider: the callers
\* of BaseControl in eos_connect.py.
NextEvcc ==
    \/ Tick
    \/ RunOptimizationEvent
    \/ RequestChargingState
    \/ BatteryUpdate

SpecEvcc == Init /\ [][NextEvcc]_vars

\* BaseControl's worker thread runs its loop for ever: a round that has
\* something to do is eventually run.
NextFair ==
    \/ Tick
    \/ SetAcChargeDemand
    \/ SetDischargeAllowed
    \/ SetEvccChargingState
    \/ SetEvccChargingMode
    \/ UpdateLoop
    \/ WasOverallStateChangedRecently
    \/ SetModeOverride
    \/ ClearModeOverride

SpecFair == Init /\ [][NextFair]_vars /\ WF_vars(UpdateLoop)

----------------------------------------------------------------------------
(* Properties *)

Expired == bc.override_active /\ now > bc.override_end_time

\* The mode of the transition rule with EV fusion, from the inputs alone.
RuleMode(ac, discharge, charging, mode) ==
    IF ac > 0 THEN MODE_CHARGE_FROM_GRID
    ELSE IF discharge = 0 THEN MODE_AVOID_DISCHARGE
    ELSE IF discharge # 1 THEN MODE_STARTUP
    ELSE IF charging /\ mode \in {"now", "pv+now", "minpv+now"}
    THEN MODE_AVOID_DISCHARGE_EVCC_FAST
    ELSE IF charging /\ mode = "pv" THEN MODE_DISCHARGE_ALLOWED_EVCC_PV
    ELSE IF charging /\ mode = "minpv" THEN MODE_DISCHARGE_ALLOWED_EVCC_MIN_PV
    ELSE MODE_DISCHARGE_ALLOWED

\* C1: with no override active, the mode is ChargeFromGrid exactly when the
\* AC charge demand is positive, AvoidDischarge exactly when the demand is 0
\* and discharge is not allowed, and Startup only while discharge allowed is
\* still -1 and the demand is 0.
C1_ModeFollowsEosValues ==
    ~bc.override_active =>
        /\ bc.current_overall_state = MODE_CHARGE_FROM_GRID
               <=> bc.current_ac_charge_demand > 0
        /\ bc.current_overall_state = MODE_AVOID_DISCHARGE
               <=> (bc.current_ac_charge_demand = 0
                    /\ bc.current_discharge_allowed = 0)
        /\ bc.current_overall_state = MODE_STARTUP
               => (bc.current_discharge_allowed = -1
                   /\ bc.current_ac_charge_demand = 0)

\* C1 witness: an override has come and gone, setters have run, and the mode
\* is AvoidDischarge.
C1_Witness ==
    /\ ~bc.override_active
    /\ bc.current_overall_state = MODE_AVOID_DISCHARGE
    /\ bc.current_dc_charge_demand > 0
    /\ bc.current_evcc_charging_state
    /\ bc.current_evcc_charging_mode = "now"
    /\ hist.lastOp = "clear"

\* C2: with no override active, a base mode DischargeAllowed becomes the
\* EVCC mode selected by the EV charging flag and the EV mode, stays
\* DischargeAllowed for every other EV mode or no charging, and the base
\* modes ChargeFromGrid and AvoidDischarge are the mode whatever the EV state.
C2_EvFusion ==
    ~bc.override_active =>
        bc.current_overall_state =
            RuleMode(bc.current_ac_charge_demand, bc.current_discharge_allowed,
                     bc.current_evcc_charging_state, bc.current_evcc_charging_mode)

\* C2 witness: the EV charges in mode minpv+now while discharge is allowed.
C2_Witness ==
    /\ ~bc.override_active
    /\ bc.current_ac_charge_demand = 0
    /\ bc.current_discharge_allowed = 1
    /\ bc.current_evcc_charging_state
    /\ bc.current_evcc_charging_mode = "minpv+now"
    /\ bc.current_overall_state = MODE_AVOID_DISCHARGE_EVCC_FAST

\* C3: while an override is active and the clock has not passed its end
\* time the mode is the requested one, and a battery SoC, an EV charging flag
\* or an EV mode delivered meanwhile is stored.
C3_OverrideHoldsMode ==
    /\ [](bc.override_active /\ now <= bc.override_end_time
              => bc.current_overall_state = hist.ov.mode)
    /\ [][bc.override_active /\ now <= bc.override_end_time =>
            /\ \A v \in SocValues :
                   bc' = set_current_battery_soc(bc, v)
                       => bc'.current_battery_soc = v
            /\ \A v \in BOOLEAN :
                   bc' = set_current_evcc_charging_state(bc, v, now)
                       => bc'.current_evcc_charging_state = v
            /\ \A v \in EvModes :
                   bc' = set_current_evcc_charging_mode(bc, v, now)
                       => bc'.current_evcc_charging_mode = v]_vars

\* C3 witness: an override asked for AvoidDischarge, is still in force, and
\* EOS values, EV values and a SoC that ask for another mode have arrived.
C3_Witness ==
    /\ bc.override_active
    /\ now > hist.ov.t0
    /\ now <= bc.override_end_time
    /\ hist.ov.mode = MODE_AVOID_DISCHARGE
    /\ bc.current_ac_charge_demand_no_override > 0
    /\ bc.current_evcc_charging_state
    /\ bc.current_evcc_charging_mode = "pv"
    /\ bc.current_battery_soc > 0

\* C4: an override whose end time has passed is eventually cleared by a
\* re-evaluation (unless the operator sets a new one first), and the
\* re-evaluation that clears it leaves no override, the remembered EOS
\* demand as AC charge demand and the mode of the normal rule.
C4_ExpiredOverrideIsCleared ==
    /\ Expired ~> (~bc.override_active \/ hist.lastOp = "override")
    /\ [][Expired /\ bc' = set_current_overall_state(bc, now) =>
            /\ ~bc'.override_active
            /\ bc'.current_ac_charge_demand
                   = bc.current_ac_charge_demand_no_override
            /\ bc'.current_overall_state =
                   RuleMode(bc'.current_ac_charge_demand,
                            bc'.current_discharge_allowed,
                            bc'.current_evcc_charging_state,
                            bc'.current_evcc_charging_mode)]_vars

\* C4 witness: an override to ChargeFromGrid at 3 kW has ended by the clock
\* with no explicit clear, and the EV mode of the rule is back.
C4_Witness ==
    /\ ~bc.override_active
    /\ hist.lastOp = "other"
    /\ now > 0
    /\ bc.last_ac_charge_demand = 0
    /\ bc.current_overall_state = MODE_DISCHARGE_ALLOWED_EVCC_PV
    /\ Len(bc.state_change_timestamps) = MaxStamps + 1

\* C5 as claimed: after an accepted set_mode_override to ChargeFromGrid the
\* AC charge demand is the charge rate times 1000, whatever the rate.
C5_Original ==
    hist.lastOp = "override" /\ hist.ov.mode = MODE_CHARGE_FROM_GRID
        => bc.current_ac_charge_demand = hist.rate * 1000

\* C5 amended: after an accepted set_mode_override to ChargeFromGrid with a
\* charge rate above 0 the AC charge demand is the rate times 1000 (with a
\* rate of 0 it stays what it was); an EOS value delivered while the override
\* is active and its end time has not passed becomes the remembered value and
\* leaves the AC charge demand alone.
C5_OverrideChargeRate ==
    /\ [][hist'.lastOp = "override" /\ hist'.ov.mode = MODE_CHARGE_FROM_GRID
            => bc'.current_ac_charge_demand =
                   IF hist'.rate > 0 THEN hist'.rate * 1000
                   ELSE bc.current_ac_charge_demand]_vars
    /\ [][bc.override_active /\ now <= bc.override_end_time =>
            \A v \in AcRel :
                bc' = set_current_ac_charge_demand(bc, v, now) =>
                    /\ bc'.current_ac_charge_demand_no_override
                           = (v * max_charge_power_w) \div 100
                    /\ bc'.current_ac_charge_demand = bc.current_ac_charge_demand
                    /\ bc'.override_active]_vars

\* C5 witness: an override holds 3000 W while EOS has delivered 5000 W.
C5_Witness ==
    /\ bc.override_active
    /\ hist.ov.mode = MODE_CHARGE_FROM_GRID
    /\ hist.lastOp = "other"
    /\ bc.current_ac_charge_demand = 3000
    /\ bc.current_ac_charge_demand_no_override = 5000
    /\ bc.last_ac_charge_demand = 0

\* C6: clearing an override right after setting it leaves the AC charge
\* demand at the EOS-driven value it had before the override was set.
C6_SetThenClearRestoresDemand ==
    hist.lastOp = "override_clear" => bc.current_ac_charge_demand = hist.preAc

\* C6 witness: an override of 3 kW over an EOS demand of 5000 W was cleared
\* at once.
C6_Witness ==
    /\ hist.lastOp = "override_clear"
    /\ hist.preAc = 5000
    /\ bc.current_ac_charge_demand = 5000
    /\ bc.last_ac_charge_demand = 5000

\* A re-evaluation (not an explicit clear) ends the override in this step.
ReevaluationClears ==
    /\ bc.override_active
    /\ ~bc'.override_active
    /\ hist'.lastOp \notin {"clear", "override_clear"}

\* C7 as claimed: a re-evaluation clears an override set at t0 for d minutes
\* only at or after t0 + 60 * d.
C7_Original ==
    [][ReevaluationClears => now >= hist.ov.t0 + 60 * hist.ov.d]_vars

\* C7 amended: the end time is t0 + 60 * d rounded down to the full minute;
\* up to and including that time every re-evaluation leaves the override
\* active with the AC charge demand at the override value, and only a
\* re-evaluation after it (or an explicit clear) ends the override.
C7_OverrideLastsToFullMinute ==
    /\ [](bc.override_active =>
            /\ bc.override_end_time
                   = ((hist.ov.t0 + 60 * hist.ov.d) \div 60) * 60
            /\ bc.current_ac_charge_demand = hist.ov.ac)
    /\ [][ReevaluationClears => now > bc.override_end_time]_vars

\* C7 witness: an override of one minute set at 0:45 has its end at 1:00
\* and is past it at 1:30, before 1:45.
C7_Witness ==
    /\ bc.override_active
    /\ hist.ov.t0 = 45
    /\ hist.ov.d = 1
    /\ bc.override_end_time = 60
    /\ now = 90
    /\ bc.current_ac_charge_demand = 3000

C11_Original ==
    /\ hist.lastOp = "apply"
    /\ hist.poll = "true"
    /\ hist.evMode = "now"
    /\ ~bc.override_active
    /\ bc.current_ac_charge_demand = 0
    /\ bc.current_discharge_allowed = 1
    => /\ bc.current_overall_state = MODE_AVOID_DISCHARGE_EVCC_FAST
       /\ inverter.mode = "avoid_discharge"

\* C12 as claimed: with no override, discharge allowed and the EV charging,
\* the mode is one of the three EVCC modes.
C12_Original ==
    /\ ~bc.override_active
    /\ bc.current_discharge_allowed = 1
    /\ bc.current_evcc_charging_state
    => bc.current_overall_state \in {MODE_AVOID_DISCHARGE_EVCC_FAST,
                                     MODE_DISCHARGE_ALLOWED_EVCC_PV,
                                     MODE_DISCHARGE_ALLOWED_EVCC_MIN_PV}

\* C12 amended: with no override, no AC charge demand, discharge allowed,
\* the EV charging and an EV mode among now, pv+now, minpv+now, pv, minpv, the
\* mode is the EVCC mode of that EV mode; and the mode is an EVCC mode only
\* in such a state.
C12_EvFusedWhenCharging ==
    LET fused == /\ bc.current_ac_charge_demand = 0
                 /\ bc.current_discharge_allowed = 1
                 /\ bc.current_evcc_charging_state
                 /\ bc.current_evcc_charging_mode
                        \in {"now", "pv+now", "minpv+now", "pv", "minpv"}
    IN ~bc.override_active =>
          /\ fused =>
                bc.current_overall_state =
                    IF bc.current_evcc_charging_mode = "pv"
                    THEN MODE_DISCHARGE_ALLOWED_EVCC_PV
                    ELSE IF bc.current_evcc_charging_mode = "minpv"
                    THEN MODE_DISCHARGE_ALLOWED_EVCC_MIN_PV
                    ELSE MODE_AVOID_DISCHARGE_EVCC_FAST
          /\ bc.current_overall_state >= MODE_AVOID_DISCHARGE_EVCC_FAST => fused

\* C12 witness: the EV charges in mode minpv, discharge is allowed, and the
\* change to the EVCC mode is in the window.
C12_Witness ==
    /\ ~bc.override_active
    /\ bc.current_discharge_allowed = 1
    /\ bc.current_evcc_charging_state
    /\ bc.current_evcc_charging_mode = "minpv"
    /\ bc.current_overall_state = MODE_DISCHARGE_ALLOWED_EVCC_MIN_PV
    /\ Len(bc.state_change_timestamps) = 1

\* C15: a poll that yields a boolean different from the last known charging
\* state stores it, passes it to the observer exactly once, and the observer
\* runs change_control_state once; every other poll (same value, no data,
\* malformed data) calls no observer and leaves the last known charging
\* state, the control state and the inverter alone.
C15_PollCallsObserverOnce ==
    [][hist'.poll # "none" =>
         LET charging_state == (hist'.poll = "true")
         IN IF hist'.poll \in {"true", "false"} /\ charging_state # evcc
            THEN /\ evcc' = charging_state
                 /\ hist'.observer = << charging_state >>
                 /\ bc' = change_control_state(bc, charging_state, now).bc
            ELSE /\ evcc' = evcc
                 /\ hist'.observer = << >>
                 /\ bc' = bc
                 /\ inverter' = inverter]_vars

\* C15 witness: a poll found the EV charging, and the observer's apply step
\* wrote to the inverter.
C15_Witness ==
    /\ hist.poll = "true"
    /\ hist.observer = << TRUE >>
    /\ evcc
    /\ bc.current_evcc_charging_state
    /\ hist.wroteQuiet
    /\ now > 0

\* C13 as claimed: the window of state-change timestamps never holds more
\* than 1000 entries.
C13_Original == Len(bc.state_change_timestamps) <= max_timestamps

C16_InvalidResponseSkipped ==
    [][/\ hist'.tick.outcome = "ok"
       /\ ~(/\ hist'.tick.response.has_start_solution
            /\ Len(hist'.tick.response.start_solution) > 1)
       => /\ hist'.lastOp = "skipped"
          /\ bc' = bc
          /\ eos' = eos
          /\ inverter' = inverter]_vars

\* C16 witness: after a tick that applied ChargeFromGrid at 5000 W, a tick
\* with a start_solution of length 1 and other values was skipped.
C16_Witness ==
    /\ hist.lastOp = "skipped"
    /\ hist.tick.outcome = "ok"
    /\ hist.tick.response.start_solution = <<1>>
    /\ hist.tick.response.ac_charge = 0
    /\ bc.current_ac_charge_demand = 5000
    /\ inverter = [mode |-> "force_charge", power |-> 5000]
    /\ eos.last_start_solution = <<0, 1>>

\* C17 as claimed: whatever the outcome of the requests to EOS, the
\* optimization thread is still running.
C17_Original == sched.alive

\* C18 as claimed: once every operation has returned, with no override
\* active, the mode is the one the transition rule gives for the current
\* inputs, as after any sequential order of the operations.
C18_Original ==
    worker.pc = "idle" /\ ~bc.override_active =>
        bc.current_overall_state =
            RuleMode(bc.current_ac_charge_demand, bc.current_discharge_allowed,
                     bc.current_evcc_charging_state, bc.current_evcc_charging_mode)

\* C19 as claimed: after the stop signal no worker begins another refresh
\* and the optimization thread begins no further tick.
C19_Original == threads.late = {}

\* C20 as claimed: after mode operations and shutdown(), with no failed
\* request, the inverter holds the rules it had before the first mode
\* operation and there is no backup file.
C20_Original ==
    ~fronius.up /\ fronius.mutated /\ ~fronius.failed =>
        /\ fronius.timeofuse = UserRules
        /\ ~fronius.backup.exists

\* C21 as claimed: when an Authorization header answering a challenge that
\* advertises SHA-256 or SHA256 gets a 401, the next header sent in the
\* operation is computed with MD5 and carries algorithm MD5; the operation
\* falls back at most once.
C21_Original ==
    /\ \A i \in 1..(Len(auth.headers) - 1) :
          /\ auth.headers[i].challenge \in {"SHA-256", "SHA256"}
          /\ auth.headers[i].status = "401"
          => /\ auth.headers[i + 1].algorithm = "MD5"
             /\ auth.headers[i + 1].hash = "md5"
    /\ auth.fallbacks <= 1

\* C22 as claimed: an operation makes at most 3 attempts, and one whose
\* first digest was rejected with 401 and whose second, with MD5, was
\* accepted has had two challenge-response cycles and at most three requests.
C22_Original ==
    /\ auth.attempt <= max_retries
    /\ (/\ auth.pc = "done"
        /\ Len(auth.headers) = 2
        /\ auth.headers[1].status = "401"
        /\ auth.headers[2].algorithm = "MD5"
        /\ auth.headers[2].status = "200")
       => auth.cycles = 2 /\ auth.requests <= 3

\* C23: a rule-set write that has returned reports success exactly when the
\* final response has status 200 and its writeSuccess list contains
\* "timeofuse"; with a list without the key or no writeSuccess, another
\* status, no response after the retries, or a body that is no JSON, it
\* reports failure.
C23_WriteReportsSuccess ==
    auth.pc = "done" =>
        /\ auth.reported = "true" <=>
               /\ auth.response.status = "200"
               /\ auth.response.body = "write_success_with"
        /\ (\/ auth.response.status # "200"
            \/ auth.response.body \in {"write_success_without",
                                        "no_write_success", "unparseable"})
           => auth.reported = "false"

\* C23 witness: after a rejected digest and a new challenge the inverter
\* answers 200 with a writeSuccess list without "timeofuse", and the write
\* reports failure.
C23_Witness ==
    /\ auth.pc = "done"
    /\ auth.cycles = 2
    /\ auth.response = [status |-> "200", body |-> "write_success_without"]
    /\ auth.reported = "false"

\* C24 as claimed: after a refresh, for every state of charge in 0..100 and
\* every positive capacity and maximum charge power configured, the dynamic
\* maximum charge power is between 500 and the configured maximum and a
\* multiple of 50; up to 50 percent it is the configured maximum, or the
\* capacity's 1C power where that is lower.
C24_Original ==
    battery # BatteryInit =>
        /\ battery.max_charge_power_dyn >= min_charge_power
        /\ battery.max_charge_power_dyn <= battery_data.max_charge_power_w
        /\ battery.max_charge_power_dyn % 50 = 0
        /\ battery.current_soc <= 50 =>
               \/ battery.max_charge_power_dyn = battery_data.max_charge_power_w
               \/ battery_data.capacity_wh < battery_data.max_charge_power_w

\* C25 as claimed: after every update_prices(48, start), whatever the
\* source, the start hour, the payload and the outcome of the fetch, the
\* published price vector has 48 entries.
C25_Original ==
    price.updated => Len(price.current_prices) = EOS_TGT_DURATION

\* C26 as claimed: after every update_prices the feed-in vector is as long
\* as the price vector, and its element i is 0 where the switch is on and
\* direct[i] is negative, the tariff / 1000 elsewhere.
C26_Original ==
    price.updated =>
        /\ Len(price.current_feedin) = Len(price.current_prices)
        /\ \A i \in 1..Len(price.current_feedin) :
              price.current_feedin[i] =
                  IF /\ price.negative_price_switch
                     /\ price.current_prices_direct[i] < 0
                  THEN 0 ELSE feed_in_tariff_price * 1000

\* C27 as claimed: after an update, whatever the source and the length of
\* the payloads, the forecast returned for each array has 48 entries, and
\* the published forecast has 48 entries, each the sum over all arrays.
C27_Original ==
    pv.updated =>
        /\ \A k \in 1..Len(pv.forecasts) : Len(pv.forecasts[k]) = 48
        /\ Len(pv.pv_forcast_array) = 48
        /\ \A i \in 1..48 :
              \A k \in 1..Len(pv.forecasts) : i <= Len(pv.forecasts[k])
              => pv.pv_forcast_array[i] =
                     IF Len(pv.forecasts) = 1 THEN pv.forecasts[1][i]
                     ELSE pv.forecasts[1][i] + pv.forecasts[2][i]

\* C28 as claimed: once config.yaml is loaded, a configuration with
\* eos.timeout above refresh_time * 60 has ended the program with a nonzero
\* exit code and no worker started, and one with eos.timeout up to
\* refresh_time * 60 has passed.
C28_Original ==
    boot.config_file /\ boot.pc \notin {"off", "started"} =>
        IF boot.timeout > boot.refresh_time * 60
        THEN boot.pc = "exited" /\ boot.exit_code # 0 /\ ~boot.workers
        ELSE boot.pc \in {"loaded", "running"}

\* C29 as claimed: every BaseControl operation that changes the mode or the
\* AC charge demand records a timestamp in the state-change window, also the
\* end of an override that had forced a charge rate.
C29_Original ==
    [][\/ bc'.current_overall_state # bc.current_overall_state
       \/ bc'.current_ac_charge_demand # bc.current_ac_charge_demand
       => /\ bc'.state_change_timestamps # << >>
          /\ bc'.state_change_timestamps[Len(bc'.state_change_timestamps)] = now
          /\ bc'.state_change_timestamps # bc.state_change_timestamps]_vars

C32_Original ==
    [][hist'.lastOp = "override" /\ hist'.ov.mode \notin {0, 1, 2}
       => /\ bc'.current_overall_state = bc.current_overall_state
          /\ bc'.override_active = bc.override_active
          /\ bc'.override_end_time = bc.override_end_time
          /\ bc'.current_ac_charge_demand = bc.current_ac_charge_demand
          /\ bc'.state_change_timestamps = bc.state_change_timestamps]_vars

\* The same mode, the same AC charge demand and the same window.
SameEvaluation(c, d) ==
    /\ SameOutput(c, d)
    /\ c.state_change_timestamps = d.state_change_timestamps

\* C33: with no override active, a re-evaluation of the control state, or a
\* setter called with the value already stored, leaves the mode and the AC
\* charge demand as they are and records no timestamp.
C33_ReevaluationIsIdempotent ==
    ~bc.override_active =>
        /\ SameEvaluation(set_current_overall_state(bc, now), bc)
        /\ \A v \in AcRel :
              (v * max_charge_power_w) \div 100 = bc.current_ac_charge_demand
              => SameEvaluation(set_current_ac_charge_demand(bc, v, now), bc)
        /\ \A v \in DischargeValues :
              v = bc.current_discharge_allowed
              => SameEvaluation(set_current_discharge_allowed(bc, v, now), bc)
        /\ SameEvaluation(
               set_current_evcc_charging_state(
                   bc, bc.current_evcc_charging_state, now), bc)

\* A re-evaluation finds a charge demand and a recorded change, later on.
C33_Witness ==
    /\ ~bc.override_active
    /\ bc.current_overall_state = MODE_CHARGE_FROM_GRID
    /\ bc.current_ac_charge_demand > 0
    /\ bc.state_change_timestamps # << >>
    /\ now > bc.state_change_timestamps[1]
    /\ bc = set_current_overall_state(bc, now)

\* C34: the start_solution a request carries is the start_solution of the
\* most recent response that had one of length > 1, and null (the empty
\* sequence) while there was none; failed and invalid responses do not
\* overwrite it.
C34_RequestCarriesLastValidSolution ==
    create_optimize_request(eos).start_solution = hist.valid_solution

\* C34 witness: a response with start_solution <<1, 0>> was applied, then
\* the request to EOS timed out; the next request carries <<1, 0>>.
C34_Witness ==
    /\ sched.alive
    /\ hist.tick.outcome = "timeout"
    /\ hist.lastOp = "skipped"
    /\ hist.valid_solution = <<1, 0>>
    /\ create_optimize_request(eos).start_solution = <<1, 0>>

\* C35 as claimed: a tick whose response has a valid start_solution and a
\* missing or too short control vector changes nothing in the control
\* state, and the optimization thread goes on.
C35_Original ==
    [][hist'.tick.outcome = "malformed" => bc' = bc /\ sched'.alive]_vars

\* C36 as claimed: after a refresh whose fetch failed (timeout, no
\* connection, HTTP error) the published SoC is the last one fetched with
\* success, and 5 percent only when no fetch has succeeded.
C36_Original ==
    hist.soc.outcome \in {"timeout", "connection", "http_error"} =>
        battery.current_soc = IF hist.soc.good = << >> THEN 5
                              ELSE hist.soc.good[1]

\* C37 as claimed: a refresh calls the observer exactly when it changes the
\* published dynamic maximum charge power, the first value and the fixed
\* value of a disabled charging curve included.
C37_Original ==
    [][hist'.soc # hist.soc =>
          (hist'.soc.called <=>
               battery'.max_charge_power_dyn # battery.max_charge_power_dyn)]_vars

\* C38 as claimed: a refresh of a fetched price source that fails after an
\* earlier refresh had succeeded leaves the published total, direct and
\* feed-in vectors as they were.
C38_Original ==
    [][/\ price.updated /\ price'.updated
       /\ price.src \in {"default", "tibber", "smartenergy_at"}
       /\ hist'.fetch.outcome = "failed"
       /\ hist'.fetch.succeeded
       => /\ price'.current_prices = price.current_prices
          /\ price'.current_prices_direct = price.current_prices_direct
          /\ price'.current_feedin = price.current_feedin]_vars

\* C39 as claimed: a refresh over several arrays in which the fetch for one
\* array fails leaves the published forecast as it was (the default shape
\* if there was none) and leaves the error recorded.
C39_Original ==
    [][/\ pv'.updated
       /\ Len(pv.config) > 1
       /\ pv'.config = pv.config /\ pv'.source = pv.source
       /\ pv'.source \in {"akkudoktor", "forecast_solar"}
       /\ \E k \in 1..Len(pv'.forecasts) : pv'.forecasts[k] = << >>
       => /\ pv'.pv_forcast_array =
                 IF pv.pv_forcast_array = << >>
                 THEN get_default_pv_forcast(pv.config[1])
                 ELSE pv.pv_forcast_array
          /\ pv'.error]_vars

\* C40 as claimed: after a mode operation whose write succeeded the
\* inverter holds exactly the rules of the operation (one CHARGE_MIN rule
\* at min(power, max_grid_charge_rate, 10000); DISCHARGE_MAX 0 plus
\* CHARGE_MAX at max_pv_charge_rate when that is positive; nothing or one
\* CHARGE_MAX rule), and get_battery_mode reads them as charge, hold and
\* normal.
C40_Original ==
    "last" \in DOMAIN fronius /\ fronius.last.ok =>
        LET pv_rule == IF fronius.max_pv_charge_rate > 0
                       THEN << [Power |-> fronius.max_pv_charge_rate,
                                ScheduleType |-> "CHARGE_MAX"] >>
                       ELSE << >>
            limit == IF fronius.max_grid_charge_rate < 10000
                     THEN fronius.max_grid_charge_rate ELSE 10000
            power == IF fronius.last.power < limit THEN fronius.last.power
                     ELSE limit
        IN CASE fronius.last.op = "force_charge" ->
                  /\ fronius.timeofuse =
                         << [Power |-> power, ScheduleType |-> "CHARGE_MIN"] >>
                  /\ get_battery_mode(fronius.timeofuse) = "charge"
             [] fronius.last.op = "avoid_discharge" ->
                  /\ fronius.timeofuse =
                         << [Power |-> 0, ScheduleType |-> "DISCHARGE_MAX"] >>
                         \o pv_rule
                  /\ get_battery_mode(fronius.timeofuse) = "hold"
             [] fronius.last.op = "allow_discharge" ->
                  /\ fronius.timeofuse = pv_rule
                  /\ get_battery_mode(fronius.timeofuse) = "normal"
             [] OTHER -> TRUE

====
